---------------------------- MODULE Spec2Model ----------------------------
(***************************************************************************)
(* Model of the Powerdrill Streamlit front-end: the chat component's       *)
(* streaming response decoder (ChatInterface._ask_question), its session   *)
(* and overview handling, and the conversation state they share            *)
(* (st.session_state).                                                     *)
(*                                                                         *)
(* Python values are tagged records (JNull, JStr, JNum, JList, JObj) so    *)
(* that the type tests, the `in` tests and the exceptions of the code can  *)
(* be followed.  A Python string is a sequence of atoms (TLA+ strings).    *)
(***************************************************************************)
EXTENDS Naturals, Sequences, FiniteSets, TLC

VARIABLES
    \* ---- st.session_state (the conversation) ----
    current_dataset_id,      \* "None" or a dataset id
    chat_history,            \* sequence of [is_user, content]
    powerdrill_session_id,   \* "Absent" (no key), "None", or a session id
    powerdrill_dataset_id,   \* "Absent" or the dataset the session is bound to
    dataset_name,            \* "Absent" or the stored overview name
    exploration_questions,   \* stored suggested questions (a sequence)
    \* ---- the running script ----
    pc,                      \* position of the script / handler
    dataset_id,              \* ChatInterface.dataset_id ("None" before construction)
    \* ---- locals of _ask_question ----
    session_id,              \* the local session_id passed to create_job
    response_content,        \* accumulated text
    images, tables,          \* collected artifacts
    seen_image_urls, seen_table_urls,
    event_type,              \* running SSE event type (JNull or JStr)
    job_id,
    \* ---- locals of _load_dataset_overview ----
    attempt,                 \* loop index of the retry loop
    retry_delay,
    \* ---- observation of the environment (history variables) ----
    lineNo,                  \* lines of the current stream consumed so far
    lastLine,                \* the last line read from the stream
    last,                    \* branch taken by the last decoded line
    logical,                 \* the text the lines fed so far stand for
    rcv_images, rcv_tables,  \* artifacts that reached the dedup test, in order
    created,                 \* number of sessions the service has created
    fresh,                   \* session ids created since the current binding
    init,                    \* what the last ChatInterface.__init__ did
    lastJob,                 \* the job request of the current turn, if sent
    ovCalls,                 \* get_dataset_overview calls of the current fetch
    ovLast,                  \* outcome of the last get_dataset_overview call
    sleeps,                  \* time.sleep calls of the current fetch, in order
    turn,                    \* snapshot taken when the current turn started
    \* ---- authentication and the transport (app.py, api_client.py) ----
    authenticated,           \* st.session_state.authenticated
    auth_message,            \* what the authentication block last displayed
    net,                     \* the last request of _make_request and its outcome
    netCalls,                \* requests made so far
    trace,                   \* two clients, tracing on and off, fed the same calls
    \* ---- wait_for_dataset_ready and the upload flows ----
    wait,                    \* locals and observations of wait_for_dataset_ready
    upload,                  \* locals and observations of the running upload
    \* ---- the data manager (data_manager.py) ----
    current_dataset_name,    \* st.session_state.current_dataset_name
    deletion                 \* the last run of _delete_dataset, if any

vars == << current_dataset_id, chat_history, powerdrill_session_id,
           powerdrill_dataset_id, dataset_name, exploration_questions,
           pc, dataset_id, session_id, response_content, images, tables,
           seen_image_urls, seen_table_urls, event_type, job_id,
           attempt, retry_delay, lineNo, lastLine, last, logical, rcv_images,
           rcv_tables,
           created, fresh, init, lastJob, ovCalls, ovLast, sleeps, turn,
           authenticated, auth_message, net, netCalls, trace, wait, upload,
           current_dataset_name, deletion >>

convVars == << current_dataset_id, chat_history, powerdrill_session_id,
               powerdrill_dataset_id, dataset_name, exploration_questions >>
decVars  == << response_content, images, tables, seen_image_urls,
               seen_table_urls, event_type, job_id >>
decGhost == << lineNo, lastLine, last, rcv_images, rcv_tables >>
ovVars   == << attempt, retry_delay, ovCalls, ovLast, sleeps >>
sessGhost == << created, fresh, init, lastJob >>
authVars == << authenticated, auth_message, net, netCalls, trace >>
dmVars   == << current_dataset_name, deletion >>
ioVars   == << authVars, wait, upload, dmVars >>
\* everything the chat component owns
chatVars == << convVars, pc, dataset_id, session_id, decVars, decGhost, logical,
               ovVars, sessGhost, turn >>

-----------------------------------------------------------------------------
(* Bounds of the model *)

\* lines of one stream that are decoded
MaxLines == 3
\* lines of one stream in the specification of whole conversations
MaxConvLines == 1
\* question turns of one conversation
MaxTurns == 2
\* sessions the remote service hands out
MaxSessions == 2
\* requests made through the transport
MaxRequests == 3
\* the timeout and the interval of wait_for_dataset_ready, in seconds
MaxTimeout == 3
MaxInterval == 2
\* files of one upload batch
MaxFiles == 2

-----------------------------------------------------------------------------
(* Python values *)

JNull     == [t |-> "null"]
JNum      == [t |-> "num"]
JStr(s)   == [t |-> "str", s |-> s]
JList(xs) == [t |-> "list", xs |-> xs]
JObj(f)   == [t |-> "obj", f |-> f]

\* `key in v`: "T", "F", or "E" when Python raises TypeError.
\* (No string or list of the model contains a key as substring or element.)
PyIn(key, v) ==
    CASE v.t = "obj"  -> IF key \in DOMAIN v.f THEN "T" ELSE "F"
      [] v.t = "list" -> "F"
      [] v.t = "str"  -> "F"
      [] OTHER        -> "E"

\* bool(v)
PyTruthy(v) ==
    CASE v.t = "obj"  -> DOMAIN v.f # {}
      [] v.t = "list" -> v.xs # << >>
      [] v.t = "str"  -> v.s # << >>
      [] v.t = "num"  -> TRUE
      [] OTHER        -> FALSE

\* dict.get(key, default) on a dict
PyGet(v, key, default) == IF key \in DOMAIN v.f THEN v.f[key] ELSE default

\* str(v) inside an f-string
PyFormat(v) ==
    CASE v.t = "str"  -> v.s
      [] v.t = "null" -> << "None" >>
      [] OTHER        -> << "<value>" >>

-----------------------------------------------------------------------------
(* The decoder of ChatInterface._ask_question.                              *)
(* A decoder state s is a record of the locals the loop updates, the two   *)
(* history fields rcv_images / rcv_tables, and `raised`: an exception left *)
(* the handling of the current line (caught at line 491; what was done     *)
(* before it stays done).                                                  *)

RECURSIVE BeforeQuery(_)
\* url.split('?')[0]
BeforeQuery(url) ==
    IF url = << >> \/ Head(url) = "?" THEN << >>
    ELSE << Head(url) >> \o BeforeQuery(Tail(url))

\* a plausible bug: the query string is kept
strip_url_params_keep(url) == url

\* strip_url_params, on a str
strip_url_params(url) ==
    IF \E i \in 1..Len(url) : url[i] = "?" THEN BeforeQuery(url) ELSE url

Raise(s) == [s EXCEPT !.raised = TRUE]

RECURSIVE UniqueByName(_, _, _)
\* a plausible bug: the final pass compares the names of the artifacts
UniqueByName(items, unique, urls) ==
    IF items = << >> THEN unique
    ELSE LET item == Head(items)
         IN  IF item.name \notin urls
             THEN UniqueByName(Tail(items), Append(unique, item),
                               urls \cup {item.name})
             ELSE UniqueByName(Tail(items), unique, urls)

RECURSIVE UniqueByUrl(_, _, _)
\* Lines 499-505 and 522-529: the loop of the final pass over the collected
\* artifacts; unique is the list built so far, urls the stripped URLs met
UniqueByUrl(items, unique, urls) ==
    IF items = << >> THEN unique
    ELSE LET item      == Head(items)
             clean_url == strip_url_params(item.url.s)
         IN  IF clean_url \notin urls
             THEN UniqueByUrl(Tail(items), Append(unique, item),
                              urls \cup {clean_url})
             ELSE UniqueByUrl(Tail(items), unique, urls)

\* Lines 496-505: the images displayed after the text
unique_images(imgs) == IF imgs # << >> THEN UniqueByUrl(imgs, << >>, {}) ELSE << >>

\* Lines 522-529: the tables displayed after the text
unique_tables(tbls) == UniqueByUrl(tbls, << >>, {})

\* f"\n\n![{image_name}]({image_url})\n\n"
ImageText(name, url) ==
    << "\n\n![" >> \o PyFormat(name) \o << "](" >> \o PyFormat(url) \o << ")\n\n" >>

\* f"\n\n**Table: {table_name}** (will be displayed below)\n\n"
TableText(name) ==
    << "\n\n**Table: " >> \o PyFormat(name) \o << "** (will be displayed below)\n\n" >>

\* a plausible bug: a legacy image block also gets an inline reference
CollectImageAlwaysInline(s, content, inline) ==
    LET url   == PyGet(content, "url", JNull)
        name  == PyGet(content, "name", JStr(<< "Image" >>))
        entry == [url |-> url, name |-> name]
    IN  IF url.t \in {"null", "num"} THEN Raise(s)
        ELSE IF url.t # "str"
             THEN IF PyTruthy(url) THEN Raise(s) ELSE s
        ELSE LET clean == strip_url_params(url.s)
                 s1    == [s EXCEPT !.rcv_images = Append(@, entry)]
             IN  IF clean # << >> /\ clean \notin s.seen_image_urls
                 THEN [s1 EXCEPT
                         !.images = Append(@, entry),
                         !.seen_image_urls = @ \cup {clean},
                         !.response_content = @ \o ImageText(name, url)]
                 ELSE s1

\* Lines 395-406 / 446-452: dedup and collect one image whose content is a
\* dict with a 'url'; inline = the SSE branch, which also extends the text.
CollectImage(s, content, inline) ==
    LET url   == PyGet(content, "url", JNull)
        name  == PyGet(content, "name", JStr(<< "Image" >>))
        entry == [url |-> url, name |-> name]
    IN  IF url.t \in {"null", "num"} THEN Raise(s)        \* '?' in url: TypeError
        ELSE IF url.t # "str"
             THEN IF PyTruthy(url) THEN Raise(s) ELSE s   \* unhashable in a set
        ELSE LET clean == strip_url_params(url.s)
                 s1    == [s EXCEPT !.rcv_images = Append(@, entry)]
             IN  IF clean # << >> /\ clean \notin s.seen_image_urls
                 THEN [s1 EXCEPT
                         !.images = Append(@, entry),
                         !.seen_image_urls = @ \cup {clean},
                         !.response_content =
                             IF inline THEN @ \o ImageText(name, url) ELSE @]
                 ELSE s1

\* a plausible bug: one dedup set for both kinds
CollectTableSharedSet(s, content, inline) ==
    LET url   == PyGet(content, "url", JNull)
        name  == PyGet(content, "name", JStr(<< "Table" >>))
        entry == [url |-> url, name |-> name]
    IN  IF url.t \in {"null", "num"} THEN Raise(s)
        ELSE IF url.t # "str"
             THEN IF PyTruthy(url) THEN Raise(s) ELSE s
        ELSE LET clean == strip_url_params(url.s)
                 s1    == [s EXCEPT !.rcv_tables = Append(@, entry)]
             IN  IF clean # << >>
                    /\ clean \notin (s.seen_image_urls \cup s.seen_table_urls)
                 THEN [s1 EXCEPT
                         !.tables = Append(@, entry),
                         !.seen_table_urls = @ \cup {clean},
                         !.response_content =
                             IF inline THEN @ \o TableText(name) ELSE @]
                 ELSE s1

\* Lines 414-424 / 456-462: the same for a table.
CollectTable(s, content, inline) ==
    LET url   == PyGet(content, "url", JNull)
        name  == PyGet(content, "name", JStr(<< "Table" >>))
        entry == [url |-> url, name |-> name]
    IN  IF url.t \in {"null", "num"} THEN Raise(s)
        ELSE IF url.t # "str"
             THEN IF PyTruthy(url) THEN Raise(s) ELSE s
        ELSE LET clean == strip_url_params(url.s)
                 s1    == [s EXCEPT !.rcv_tables = Append(@, entry)]
             IN  IF clean # << >> /\ clean \notin s.seen_table_urls
                 THEN [s1 EXCEPT
                         !.tables = Append(@, entry),
                         !.seen_table_urls = @ \cup {clean},
                         !.response_content =
                             IF inline THEN @ \o TableText(name) ELSE @]
                 ELSE s1

\* a plausible bug: a text delta is put in front of the accumulated text
HandleDeltaPrepend(s, ev, content) ==
    CASE ev = "MESSAGE" ->
            IF content.t = "str" /\ content.s # << >>
            THEN [s EXCEPT !.response_content = content.s \o @]
            ELSE s
      [] ev = "IMAGE" ->
            IF content.t = "obj" /\ "url" \in DOMAIN content.f
            THEN CollectImage(s, content, TRUE) ELSE s
      [] ev = "TABLE" ->
            IF content.t = "obj" /\ "url" \in DOMAIN content.f
            THEN CollectTable(s, content, TRUE) ELSE s
      [] OTHER -> s

\* Lines 383-387, 393-406, 412-424: one delta content under event type ev.
HandleDelta(s, ev, content) ==
    CASE ev = "MESSAGE" ->
            IF content.t = "str" /\ content.s # << >>
            THEN [s EXCEPT !.response_content = @ \o content.s]
            ELSE s
      [] ev = "IMAGE" ->
            IF content.t = "obj" /\ "url" \in DOMAIN content.f
            THEN CollectImage(s, content, TRUE) ELSE s
      [] ev = "TABLE" ->
            IF content.t = "obj" /\ "url" \in DOMAIN content.f
            THEN CollectTable(s, content, TRUE) ELSE s
      [] OTHER -> s

RECURSIVE SseChoices(_, _, _)
\* Lines 381-382 / 391-392 / 410-411: for choice in data.get('choices', [])
SseChoices(s, ev, choices) ==
    IF choices = << >> \/ s.raised THEN s
    ELSE LET choice == Head(choices)
             inDelta == PyIn("delta", choice)
         IN  IF inDelta = "E" THEN Raise(s)
             ELSE IF inDelta = "F" THEN SseChoices(s, ev, Tail(choices))
             ELSE LET delta == choice.f["delta"]
                      inContent == PyIn("content", delta)
                  IN  IF inContent = "E" THEN Raise(s)
                      ELSE IF inContent = "F"
                           THEN SseChoices(s, ev, Tail(choices))
                      ELSE SseChoices(HandleDelta(s, ev, delta.f["content"]),
                                      ev, Tail(choices))

\* Lines 380-424: the SSE delta branch, chosen by the running event type.
SseDelta(s, event, data) ==
    IF event \in {JStr(<< "MESSAGE" >>), JStr(<< "IMAGE" >>), JStr(<< "TABLE" >>)}
    THEN LET inChoices == PyIn("choices", data)
         IN  IF inChoices = "E" THEN Raise(s)
             ELSE IF inChoices = "F" THEN s
             ELSE LET choices == data.f["choices"]
                  IN  CASE choices.t = "list" ->
                              SseChoices(s, event.s[1], choices.xs)
                        [] choices.t \in {"obj", "str"} -> s  \* keys / characters
                        [] OTHER -> Raise(s)                  \* not iterable
    ELSE s

\* a plausible bug: a text block replaces the accumulated text (= for +=)
HandleBlockAssign(s, block) ==
    IF block.t # "obj" THEN Raise(s)
    ELSE LET block_type == PyGet(block, "type", JNull)
             content    == PyGet(block, "content", JNull)
         IN  IF block_type = JStr(<< "MESSAGE" >>) /\ PyTruthy(content)
             THEN IF content.t = "str"
                  THEN [s EXCEPT !.response_content = content.s]
                  ELSE s
             ELSE IF block_type = JStr(<< "IMAGE" >>) /\ content.t = "obj"
                     /\ "url" \in DOMAIN content.f
             THEN CollectImage(s, content, FALSE)
             ELSE IF block_type = JStr(<< "TABLE" >>) /\ content.t = "obj"
                     /\ "url" \in DOMAIN content.f
             THEN CollectTable(s, content, FALSE)
             ELSE s

\* Lines 429-462: one block of data.blocks
HandleBlock(s, block) ==
    IF block.t # "obj" THEN Raise(s)                     \* block.get: AttributeError
    ELSE LET block_type == PyGet(block, "type", JNull)
             content    == PyGet(block, "content", JNull)
         IN  IF block_type = JStr(<< "MESSAGE" >>) /\ PyTruthy(content)
             THEN IF content.t = "str"
                  THEN [s EXCEPT !.response_content = @ \o content.s]
                  ELSE s
             ELSE IF block_type = JStr(<< "IMAGE" >>) /\ content.t = "obj"
                     /\ "url" \in DOMAIN content.f
             THEN CollectImage(s, content, FALSE)
             ELSE IF block_type = JStr(<< "TABLE" >>) /\ content.t = "obj"
                     /\ "url" \in DOMAIN content.f
             THEN CollectTable(s, content, FALSE)
             ELSE s

RECURSIVE Blocks(_, _)
\* Line 428: for block in data['data']['blocks']
Blocks(s, blocks) ==
    IF blocks = << >> \/ s.raised THEN s
    ELSE Blocks(HandleBlock(s, Head(blocks)), Tail(blocks))

\* a plausible bug: only a str content is taken, a list content is skipped
HandleMessageStrOnly(s, msg) ==
    IF msg.t # "obj" THEN Raise(s)
    ELSE LET msg_type == PyGet(msg, "type", JNull)
             content  == PyGet(msg, "content", JNull)
         IN  IF msg_type = JStr(<< "TEXT" >>) /\ content.t = "str"
             THEN [s EXCEPT !.response_content = @ \o content.s]
             ELSE s

\* a plausible bug: the last element of a list content is taken
HandleMessageLastElement(s, msg) ==
    IF msg.t # "obj" THEN Raise(s)
    ELSE LET msg_type == PyGet(msg, "type", JNull)
             content  == PyGet(msg, "content", JNull)
         IN  IF msg_type = JStr(<< "TEXT" >>) /\ PyTruthy(content)
             THEN IF content.t = "list"
                  THEN LET text == content.xs[Len(content.xs)]
                       IN  IF text.t = "str"
                           THEN [s EXCEPT !.response_content = @ \o text.s]
                           ELSE Raise(s)
                  ELSE IF content.t = "str"
                  THEN [s EXCEPT !.response_content = @ \o content.s]
                  ELSE s
             ELSE s

\* Lines 467-480: one message of data.messages
HandleMessage(s, msg) ==
    IF msg.t # "obj" THEN Raise(s)
    ELSE LET msg_type == PyGet(msg, "type", JNull)
             content  == PyGet(msg, "content", JNull)
         IN  IF msg_type = JStr(<< "TEXT" >>) /\ PyTruthy(content)
             THEN IF content.t = "list"
                  THEN LET text == content.xs[1]
                       IN  IF text.t = "str"
                           THEN [s EXCEPT !.response_content = @ \o text.s]
                           ELSE Raise(s)            \* str += non-str: TypeError
                  ELSE IF content.t = "str"
                  THEN [s EXCEPT !.response_content = @ \o content.s]
                  ELSE s
             ELSE s

RECURSIVE Messages(_, _)
\* Line 466: for msg in data['data']['messages']
Messages(s, msgs) ==
    IF msgs = << >> \/ s.raised THEN s
    ELSE Messages(HandleMessage(s, Head(msgs)), Tail(msgs))

\* Iterating v with a body that calls .get on each element.
IterGet(s, v, isBlocks) ==
    CASE v.t = "list" -> IF isBlocks THEN Blocks(s, v.xs) ELSE Messages(s, v.xs)
      [] v.t \in {"obj", "str"} -> IF PyTruthy(v) THEN Raise(s) ELSE s
      [] OTHER -> Raise(s)

\* Lines 426-480: the legacy branches, data.blocks before data.messages.
Legacy(s, data) ==
    LET inData == PyIn("data", data)
    IN  IF inData = "E" THEN Raise(s)
        ELSE IF inData = "F" THEN s
        ELSE LET inner    == data.f["data"]
                 inBlocks == PyIn("blocks", inner)
             IN  IF inBlocks = "E" THEN Raise(s)
                 ELSE IF inBlocks = "T"
                      THEN IterGet(s, inner.f["blocks"], TRUE)
                 ELSE IF PyIn("messages", inner) = "T"
                      THEN IterGet(s, inner.f["messages"], FALSE)
                 ELSE s

\* Lines 379-480: everything done with one decoded JSON payload.
DecodeData(s, event, data) ==
    LET s1 == SseDelta(s, event, data)
    IN  IF s1.raised THEN s1 ELSE Legacy(s1, data)

-----------------------------------------------------------------------------
(* Stream lines.  A line is a record                                       *)
(*   k    : "empty" (b''), "badutf8" (bytes that do not decode), "str"     *)
(*   head : "event:", "data:", "id:" or "other" (what the line starts with)*)
(*   rest : for an event line, the atoms after the prefix                  *)
(*   body : for a data line, the text after the prefix, stripped:          *)
(*          syn "bare" (not JSON, no leading brace), "brace_bad" (leading  *)
(*          brace, not JSON) or "json" with its value val; text = its atoms*)

RECURSIVE LStrip(_)
LStrip(toks) ==
    IF toks # << >> /\ Head(toks) = " " THEN LStrip(Tail(toks)) ELSE toks

RECURSIVE RStrip(_)
RStrip(toks) ==
    IF toks # << >> /\ toks[Len(toks)] = " "
    THEN RStrip(SubSeq(toks, 1, Len(toks) - 1)) ELSE toks

\* str.strip()
Strip(toks) == RStrip(LStrip(toks))

\* data_str.startswith('{')
StartsWithBrace(body) ==
    body.syn = "brace_bad" \/ (body.syn = "json" /\ body.val.t = "obj")

\* json.loads(data_str): ok, or JSONDecodeError
json_loads(body) ==
    IF body.syn = "json" THEN [ok |-> TRUE, v |-> body.val]
    ELSE [ok |-> FALSE, v |-> JNull]

\* a plausible bug: a line without a known prefix is parsed as a payload
UnknownLineAsData(s, event, job, line) ==
    IF line.body.syn = "json"
    THEN [s |-> [DecodeData(s, event, line.body.val) EXCEPT !.raised = FALSE],
          event_type |-> event, job_id |-> job, last |-> "decoded"]
    ELSE [s |-> [s EXCEPT !.response_content = @ \o line.body.text],
          event_type |-> event, job_id |-> job, last |-> "unknown"]

\* Lines 487-489: the line has no recognized prefix
UnknownLine(s, event, job, line) ==
    [s |-> s, event_type |-> event, job_id |-> job, last |-> "unknown"]

\* a plausible bug: the event type is forgotten once a payload is consumed
DataLineResetEvent(s, event, job, line) ==
    IF event = JStr(<< "JOB_ID" >>) /\ ~StartsWithBrace(line.body)
    THEN [s |-> s, event_type |-> JNull, job_id |-> JStr(line.body.text),
          last |-> "job_id"]
    ELSE LET parsed == json_loads(line.body)
         IN  IF ~parsed.ok
             THEN [s |-> s, event_type |-> event, job_id |-> job,
                   last |-> "json_error"]
             ELSE LET r == DecodeData(s, event, parsed.v)
                  IN  [s |-> [r EXCEPT !.raised = FALSE],
                       event_type |-> JNull, job_id |-> job,
                       last |-> IF r.raised THEN "exception" ELSE "decoded"]

\* a plausible bug: the bare job id is also shown in the text
DataLineJobIdInText(s, event, job, line) ==
    IF event = JStr(<< "JOB_ID" >>) /\ ~StartsWithBrace(line.body)
    THEN [s |-> [s EXCEPT !.response_content = @ \o line.body.text],
          event_type |-> event, job_id |-> JStr(line.body.text),
          last |-> "job_id"]
    ELSE LET parsed == json_loads(line.body)
         IN  IF ~parsed.ok
             THEN [s |-> s, event_type |-> event, job_id |-> job,
                   last |-> "json_error"]
             ELSE LET r == DecodeData(s, event, parsed.v)
                  IN  [s |-> [r EXCEPT !.raised = FALSE],
                       event_type |-> event, job_id |-> job,
                       last |-> IF r.raised THEN "exception" ELSE "decoded"]

\* Lines 364-483: a `data:` line
DataLine(s, event, job, line) ==
    IF event = JStr(<< "JOB_ID" >>) /\ ~StartsWithBrace(line.body)
    THEN [s |-> s, event_type |-> event, job_id |-> JStr(line.body.text),
          last |-> "job_id"]
    ELSE LET parsed == json_loads(line.body)
         IN  IF ~parsed.ok
             THEN [s |-> s, event_type |-> event, job_id |-> job,
                   last |-> "json_error"]
             ELSE LET r == DecodeData(s, event, parsed.v)
                  IN  [s |-> [r EXCEPT !.raised = FALSE],
                       event_type |-> event, job_id |-> job,
                       last |-> IF r.raised THEN "exception" ELSE "decoded"]

\* Lines 352-493: the body of `for line in stream` for one line
DecodeLine(s, event, job, line) ==
    CASE line.k = "empty" ->
            [s |-> s, event_type |-> event, job_id |-> job, last |-> "empty"]
      [] line.k = "badutf8" ->       \* line.decode raises, caught at line 491
            [s |-> s, event_type |-> event, job_id |-> job, last |-> "bad_bytes"]
      [] line.k = "str" /\ line.head = "event:" ->
            [s |-> s, event_type |-> JStr(Strip(line.rest)), job_id |-> job,
             last |-> "event"]
      [] line.k = "str" /\ line.head = "data:" -> DataLine(s, event, job, line)
      [] line.k = "str" /\ line.head = "id:" ->
            [s |-> s, event_type |-> event, job_id |-> job, last |-> "id"]
      [] OTHER -> UnknownLine(s, event, job, line)

-----------------------------------------------------------------------------
(* The lines the model feeds to the decoder *)

NoBody == [syn |-> "bare", text |-> << >>, val |-> JNull]

EventLine(rest) == [k |-> "str", head |-> "event:", rest |-> rest, body |-> NoBody]
JsonData(text, v) ==
    [k |-> "str", head |-> "data:", rest |-> << >>,
     body |-> [syn |-> "json", text |-> << text >>, val |-> v]]
RawData(syn, text) ==
    [k |-> "str", head |-> "data:", rest |-> << >>,
     body |-> [syn |-> syn, text |-> << text >>, val |-> JNull]]
OtherLine(body) == [k |-> "str", head |-> "other", rest |-> << >>, body |-> body]
IdLine    == [k |-> "str", head |-> "id:", rest |-> << >>, body |-> NoBody]
EmptyLine == [k |-> "empty", head |-> "other", rest |-> << >>, body |-> NoBody]
BadUtf8   == [k |-> "badutf8", head |-> "other", rest |-> << >>, body |-> NoBody]
\* before the first line is read
NoLine    == [k |-> "none", head |-> "other", rest |-> << >>, body |-> NoBody]

Choice(content) == JObj([delta |-> JObj([content |-> content])])
Delta(contents) ==
    JObj([choices |-> JList([i \in 1..Len(contents) |-> Choice(contents[i])])])
Art(url, name) == JObj([url |-> JStr(url), name |-> JStr(<< name >>)])
Block(type, content) == JObj([type |-> JStr(<< type >>), content |-> content])
BlocksPayload(blocks) == JObj([data |-> JObj([blocks |-> JList(blocks)])])
MessagesPayload(msgs) == JObj([data |-> JObj([messages |-> JList(msgs)])])

Hello == << "hello" >>
World == << " world" >>
U1    == << "u" >>
U1a   == << "u", "?", "a" >>
U1b   == << "u", "?", "b" >>
U2    == << "v" >>
Uq    == << "?", "a" >>

EventLines ==
    { EventLine(<< " ", "JOB_ID" >>), EventLine(<< " ", "MESSAGE" >>),
      EventLine(<< "IMAGE", " " >>), EventLine(<< " ", "TABLE" >>) }

TextLines ==
    { JsonData("d1", Delta(<< JStr(Hello) >>)),
      JsonData("d2", Delta(<< JStr(World) >>)),
      JsonData("d3", Delta(<< JStr(Hello), JStr(World) >>)),
      JsonData("d4", Delta(<< JNull >>)),
      JsonData("b1", BlocksPayload(<< Block("MESSAGE", JStr(Hello)) >>)),
      JsonData("b2", BlocksPayload(<< Block("MESSAGE", JStr(World)) >>)),
      JsonData("m1", MessagesPayload(<< Block("TEXT", JList(<< JStr(Hello) >>)) >>)),
      JsonData("m2", MessagesPayload(<< Block("TEXT", JStr(World)) >>)),
      JsonData("m3", MessagesPayload(<< Block("OTHER", JStr(World)) >>)),
      JsonData("m4", MessagesPayload(<< Block("TEXT", JList(<< JStr(Hello), JStr(World) >>)) >>)),
      JsonData("m5", MessagesPayload(<< Block("TEXT", JList(<< >>)),
                                        Block("TEXT", JStr(<< >>)),
                                        Block("IMAGE", JList(<< JStr(World) >>)),
                                        JObj([type |-> JStr(<< "TEXT" >>)]) >>)) }

ArtifactLines ==
    { JsonData("a1", Delta(<< Art(U1, "n1") >>)),
      JsonData("a2", Delta(<< Art(U1a, "n2") >>)),
      JsonData("a3", Delta(<< Art(U2, "n1"), Art(U1b, "n1") >>)),
      JsonData("a4", Delta(<< Art(Uq, "n1") >>)),
      JsonData("a5", Delta(<< JObj([url |-> JStr(U1b)]) >>)),
      JsonData("b3", BlocksPayload(<< Block("IMAGE", Art(U1a, "n1")) >>)),
      JsonData("b4", BlocksPayload(<< Block("TABLE", Art(U1, "n2")),
                                      Block("IMAGE", Art(U2, "n2")) >>)),
      JsonData("b5", BlocksPayload(<< Block("SOURCES", JList(<< JStr(<< "src" >>) >>)) >>)),
      JsonData("b6", BlocksPayload(<< Block("MESSAGE", JStr(Hello)),
                                      Block("QUESTIONS", JList(<< JStr(<< "next" >>) >>)) >>)) }

\* payloads whose handling raises part-way, or that fit two shapes at once
OddLines ==
    { JsonData("x1", JObj([choices |-> JList(<< Choice(JStr(Hello)), JNull >>)])),
      JsonData("x2", Delta(<< Art(U2, "n1"), JObj([url |-> JNull]) >>)),
      JsonData("x3", BlocksPayload(<< Block("MESSAGE", JStr(Hello)), JNull >>)),
      JsonData("x4", MessagesPayload(<< Block("TEXT", JStr(Hello)),
                                        Block("TEXT", JList(<< JNum >>)) >>)),
      JsonData("x5", JObj([choices |-> JList(<< Choice(JStr(Hello)) >>),
                           data |-> JObj([blocks |-> JList(<< Block("MESSAGE", JStr(World)) >>)])])),
      JsonData("x6", JObj([data |-> JObj([
                        blocks |-> JList(<< Block("MESSAGE", JStr(Hello)) >>),
                        messages |-> JList(<< Block("TEXT", JStr(World)) >>)])])),
      JsonData("5", JNum),
      JsonData("x7", JObj([data |-> JNull])) }

ControlLines ==
    { RawData("bare", "job-1"), RawData("brace_bad", "{oops"),
      IdLine, EmptyLine, BadUtf8,
      OtherLine([syn |-> "bare", text |-> << "ping" >>, val |-> JNull]),
      OtherLine([syn |-> "json", text |-> << "b1" >>,
                 val |-> BlocksPayload(<< Block("MESSAGE", JStr(Hello)) >>)]) }

DecLines == EventLines \cup TextLines \cup ArtifactLines \cup OddLines \cup ControlLines

-----------------------------------------------------------------------------
(* The conversation: sessions, turns, the overview fetch *)

Datasets   == {"A", "B"}
Questions  == {"q1"}
SessionIds == << "s1", "s2", "s3", "s4", "s5", "s6", "s7", "s8" >>

\* What createSession can answer: an id, a response without data.id, an error.
SessionOutcomes == {"ok", "noid", "exc"}
\* What opening the job stream can do.
JobOutcomes == {"ok", "fail"}
\* What one getDatasetOverview call can answer: data with the fields, data
\* without them, a response without 'data', the generic error of the
\* transport ("exc"), the HTTPError of a 401/403 ("auth").
OverviewOutcomes == {"full", "bare", "invalid", "exc", "auth"}

\* `not session_id` (st.session_state.get gives None for a missing key)
NoSession(sid) == sid \in {"Absent", "None"}

\* f"Error processing question: {str(e)}"
ErrorMsg(e) == << "Error processing question: ", e >>

UserEntry(q)      == [is_user |-> TRUE, content |-> << q >>]
AssistantEntry(c) == [is_user |-> FALSE, content |-> c]

\* a plausible bug: a session is created at every construction
NeedsSessionAlways(stored_sid, stored_ds, d) == TRUE

\* Line 26: the test that guards _create_new_session in __init__
NeedsSession(stored_sid, stored_ds, d) ==
    stored_sid = "Absent" \/ stored_ds # d

\* Lines 553-566, _create_new_session: the stored session id after the call
create_new_session(stored, o, newId) ==
    CASE o = "ok"   -> newId          \* line 559
      [] o = "noid" -> stored         \* line 563: only a warning
      [] OTHER      -> "None"         \* line 566

\* a plausible bug: the client sends the job without a session
create_job_no_fallback(sid, o2, oj, newId) ==
    [sent |-> TRUE, session |-> sid, made |-> 0, calls |-> 0,
     err |-> IF oj = "ok" THEN "" ELSE "API request failed"]

\* api_client.py lines 399-427, create_job: made = sessions created by the
\* fallback, calls = createSession calls, err = "" or the exception's text.
create_job(sid, o2, oj, newId) ==
    IF NoSession(sid)
    THEN CASE o2 = "ok" ->
                [sent |-> TRUE, session |-> newId, made |-> 1, calls |-> 1,
                 err |-> IF oj = "ok" THEN "" ELSE "API request failed"]
           [] o2 = "noid" ->       \* session_response['data']['id']: KeyError
                [sent |-> FALSE, session |-> sid, made |-> 0, calls |-> 1,
                 err |-> "'data'"]
           [] OTHER ->
                [sent |-> FALSE, session |-> sid, made |-> 0, calls |-> 1,
                 err |-> "API request failed"]
    ELSE [sent |-> TRUE, session |-> sid, made |-> 0, calls |-> 0,
          err |-> IF oj = "ok" THEN "" ELSE "API request failed"]

NoJob == [sent |-> FALSE, dataset |-> "None", session |-> "None", fresh |-> FALSE]
NoTurn ==
    [status |-> "none", session |-> "Absent", bound |-> "Absent",
     history |-> << >>, prevFailed |-> FALSE, prevSession |-> "Absent",
     touched |-> FALSE, endSession |-> "Absent"]
NoInit == [ran |-> FALSE, changed |-> FALSE, absent |-> FALSE, calls |-> 0,
           touched |-> FALSE]

\* No pair of clients is being compared
NoTrace == [api_key |-> << >>, n |-> 0]

\* No request has been made yet
NoRequest == [method |-> "none", stream |-> FALSE, resp |-> [k |-> "none"],
              result |-> [kind |-> "none", status |-> 0, msg |-> << >>]]

\* app.py lines 211-213: the credentials were accepted
LoggedIn ==
    /\ authenticated = TRUE
    /\ auth_message = << "Authentication successful!" >>
    /\ net = NoRequest
    /\ netCalls = 0
    /\ trace = NoTrace

\* A status answer: no 'data', 'data' with its counts (<< >>: the key is
\* missing), or the call raised
StatusAnswer(k, invalid, synching) ==
    [k |-> k, invalid_count |-> invalid, synching_count |-> synching]

\* _delete_dataset has not run.  id is the dataset it was called for, outcome
\* what delete_dataset did, before the selection when the handler began.
NoDelete == [id |-> "None", outcome |-> "none",
             before |-> [id |-> "None", name |-> "None"]]

\* wait_for_dataset_ready is not running.  now is time.time() - start_time,
\* pollAt its value when the last poll began.
NoWait == [pc |-> "idle", timeout |-> 0, interval |-> 0, now |-> 0,
           pollAt |-> 0, polls |-> 0, sleeps |-> 0, result |-> "none",
           status |-> StatusAnswer("none", << >>, << >>),
           onlySynching |-> TRUE]

\* No upload is running.  n files in the batch, i of them done, temp the
\* files whose staging copy exists, requests what was sent to the service,
\* dataset the local dataset_id, result what the flow yields ("None": no
\* dataset id), ready the answer of wait_for_dataset_ready, failed the file
\* whose step raised, before the current_dataset_id when the flow began.
NoUpload == [flow |-> "none", n |-> 0, i |-> 0, temp |-> {}, requests |-> << >>,
             dataset |-> "None", result |-> "none", ready |-> "none",
             failed |-> 0, before |-> "None"]

\* app.py lines 176-188 and the locals before any handler ran
InitChat ==
    /\ wait = NoWait
    /\ current_dataset_name = "None" /\ deletion = NoDelete
    /\ upload = NoUpload
    /\ current_dataset_id = "None"
    /\ chat_history = << >>
    /\ powerdrill_session_id = "Absent"
    /\ powerdrill_dataset_id = "Absent"
    /\ dataset_name = "Absent"
    /\ exploration_questions = << >>
    /\ pc = "idle"
    /\ dataset_id = "None"
    /\ session_id = "None"
    /\ response_content = << >>
    /\ images = << >> /\ tables = << >>
    /\ seen_image_urls = {} /\ seen_table_urls = {}
    /\ event_type = JNull /\ job_id = JNull
    /\ attempt = 0 /\ retry_delay = 1
    /\ lineNo = 0 /\ lastLine = NoLine /\ last = "none" /\ logical = << >>
    /\ rcv_images = << >> /\ rcv_tables = << >>
    /\ created = 0 /\ fresh = {}
    /\ init = NoInit /\ lastJob = NoJob
    /\ ovCalls = 0 /\ ovLast = "none" /\ sleeps = << >>
    /\ turn = NoTurn

\* The page after the login, before a dataset is selected
Init == LoggedIn /\ InitChat

\* data_manager.py line 76: the name the listing gives for a dataset
ListedName(d) == IF d = "A" THEN "Sales" ELSE "Stock"

\* data_manager.py lines 74-80: "Use Selected Dataset"
UseSelectedDataset(d) ==
    /\ pc \in {"idle", "chat"}
    /\ current_dataset_id' = d
    /\ current_dataset_name' = ListedName(d)
    /\ pc' = "idle"
    /\ UNCHANGED << authVars, wait, upload, deletion >>
    /\ UNCHANGED << chat_history, powerdrill_session_id, powerdrill_dataset_id,
                    dataset_name, exploration_questions, dataset_id, session_id,
                    decVars, decGhost, logical, ovVars, sessGhost, turn >>

\* api_client.py lines 264-270: the DELETE request succeeds, or
\* _make_request raises
DeleteOutcomes == {"deleted", "raised"}

\* data_manager.py lines 147-159: _delete_dataset(d); the selection is
\* cleared at lines 149-151, then the request is made; on success the script
\* is rerun, on failure the error is displayed
DeleteDataset(d, o) ==
    /\ pc \in {"idle", "chat"}
    /\ IF current_dataset_id = d
       THEN /\ current_dataset_id' = "None"
            /\ current_dataset_name' = "None"
       ELSE UNCHANGED << current_dataset_id, current_dataset_name >>
    /\ deletion' = [id |-> d, outcome |-> o,
                    before |-> [id |-> current_dataset_id,
                                name |-> current_dataset_name]]
    /\ pc' = "idle"
    /\ UNCHANGED << authVars, wait, upload >>
    /\ UNCHANGED << chat_history, powerdrill_session_id, powerdrill_dataset_id,
                    dataset_name, exploration_questions, dataset_id, session_id,
                    decVars, decGhost, logical, ovVars, sessGhost, turn >>

\* Line 177
max_retries == 3

\* What the service knows of a dataset
NameOf(d)      == IF d = "A" THEN "Sales" ELSE "Stock"
QuestionsOf(d) == IF d = "A" THEN << "qA" >> ELSE << "qB" >>

\* a plausible bug: the delay is not doubled
NextDelaySame(delay) == delay

\* Lines 201, 207: retry_delay *= 2
NextDelay(delay) == delay * 2

\* _load_dataset_overview lines 176-178: the fetch starts
StartOverview ==
    /\ attempt' = 0
    /\ retry_delay' = 1
    /\ ovCalls' = 0
    /\ ovLast' = "none"
    /\ sleeps' = << >>

\* app.py lines 258-260 and ChatInterface.__init__ lines 18-36
ChatInit(o) ==
    /\ pc \in {"idle", "chat"}
    /\ current_dataset_id # "None"
    /\ o = "ok" => created < MaxSessions
    /\ LET d    == current_dataset_id
           need == NeedsSession(powerdrill_session_id, powerdrill_dataset_id, d)
           changed == powerdrill_dataset_id # d
           newId == SessionIds[created + 1]
       IN  /\ dataset_id' = d
           /\ IF need
              THEN /\ powerdrill_session_id' =
                          create_new_session(powerdrill_session_id, o, newId)
                   /\ powerdrill_dataset_id' = d
                   /\ created' = IF o = "ok" THEN created + 1 ELSE created
                   /\ fresh' = (IF changed THEN {} ELSE fresh)
                                 \cup (IF o = "ok" THEN {newId} ELSE {})
              ELSE UNCHANGED << powerdrill_session_id, powerdrill_dataset_id,
                                created, fresh >>
           /\ init' = [ran |-> TRUE, changed |-> changed,
                       absent |-> powerdrill_session_id = "Absent",
                       calls |-> IF need THEN 1 ELSE 0,
                       touched |-> init.touched \/ need]
           \* line 32: the script has just read dataset_id from
           \* current_dataset_id, and exploration_questions is never None
           /\ IF current_dataset_id # d
              THEN pc' = "overview_init" /\ StartOverview
              ELSE pc' = "chat" /\ UNCHANGED ovVars
           /\ current_dataset_id' = d
    /\ UNCHANGED ioVars
    /\ UNCHANGED << chat_history, dataset_name, exploration_questions,
                    session_id, decVars, decGhost, logical, lastJob, turn >>

\* a plausible bug: the dedup sets and the event type outlive the turn
DecoderStartKeepSeen ==
    /\ images' = << >> /\ tables' = << >>
    /\ UNCHANGED << seen_image_urls, seen_table_urls, event_type >>
    /\ job_id' = JNull
    /\ lineNo' = 0 /\ lastLine' = NoLine /\ last' = "none"
    /\ rcv_images' = << >> /\ rcv_tables' = << >>

\* Lines 337-349: the locals of a turn before the first line
DecoderStart ==
    /\ images' = << >> /\ tables' = << >>
    /\ seen_image_urls' = {} /\ seen_table_urls' = {}
    /\ event_type' = JNull /\ job_id' = JNull
    /\ lineNo' = 0 /\ lastLine' = NoLine /\ last' = "none"
    /\ rcv_images' = << >> /\ rcv_tables' = << >>

\* a plausible bug: the text decoded so far is kept in front of the error
FailTurnKeepText(history, e) ==
    /\ response_content' = response_content \o ErrorMsg(e)
    /\ chat_history' = Append(history, AssistantEntry(response_content \o ErrorMsg(e)))
    /\ pc' = "turn_done"

\* a plausible bug: the error entry replaces the transcript
FailTurnDropHistory(history, e) ==
    /\ response_content' = ErrorMsg(e)
    /\ chat_history' = << AssistantEntry(ErrorMsg(e)) >>
    /\ pc' = "turn_done"

\* Lines 542-551: the turn ends with an error entry
FailTurn(history, e) ==
    /\ response_content' = ErrorMsg(e)
    /\ chat_history' = Append(history, AssistantEntry(ErrorMsg(e)))
    /\ pc' = "turn_done"

\* a plausible bug: a question is taken while a stream is still being read
CanAskAnytime(p) == p \in {"chat", "stream"}

\* Lines 265-296: _ask_question is called from the widgets that render()
\* draws, in the one script run of the chat component
CanAsk(p) == p = "chat"

\* _ask_question lines 305-334: the user entry, the session, the job request
AskOpen(q, o1, o2, oj) ==
    /\ CanAsk(pc)
    /\ Len(chat_history) < 2 * MaxTurns
    /\ LET stored  == powerdrill_session_id
           lazy    == NoSession(stored)
           stored1 == IF lazy
                      THEN create_new_session(stored, o1, SessionIds[created + 1])
                      ELSE stored
           made1   == IF lazy /\ o1 = "ok" THEN 1 ELSE 0
           local   == IF stored1 = "Absent" THEN "None" ELSE stored1
           job     == create_job(local, o2, oj, SessionIds[created + made1 + 1])
           fresh1  == fresh \cup (IF made1 = 1 THEN {stored1} ELSE {})
                            \cup (IF job.made = 1 THEN {job.session} ELSE {})
           history == Append(chat_history, UserEntry(q))
       IN  /\ (lazy /\ o1 = "ok") => created < MaxSessions
           /\ (NoSession(local) /\ o2 = "ok") => created + made1 < MaxSessions
           /\ powerdrill_session_id' = stored1
           /\ session_id' = job.session
           /\ created' = created + made1 + job.made
           /\ fresh' = fresh1
           /\ lastJob' = IF job.sent
                         THEN [sent |-> TRUE, dataset |-> dataset_id,
                               session |-> job.session,
                               fresh |-> job.session \in fresh1]
                         ELSE NoJob
           /\ DecoderStart
           /\ IF job.err = ""
              THEN /\ chat_history' = history
                   /\ response_content' = << >>
                   /\ pc' = "stream"
                   /\ turn' = [status |-> "open", session |-> stored,
                               bound |-> powerdrill_dataset_id,
                               history |-> chat_history,
                               prevFailed |-> turn.status = "failed",
                               prevSession |-> turn.endSession,
                               touched |-> init.touched,
                               endSession |-> stored1]
              ELSE /\ FailTurn(history, job.err)
                   /\ turn' = [status |-> "failed", session |-> stored,
                               bound |-> powerdrill_dataset_id,
                               history |-> chat_history,
                               prevFailed |-> turn.status = "failed",
                               prevSession |-> turn.endSession,
                               touched |-> init.touched,
                               endSession |-> stored1]
           /\ init' = [init EXCEPT !.touched = FALSE]
    /\ UNCHANGED ioVars
    /\ UNCHANGED << current_dataset_id, powerdrill_dataset_id, dataset_name,
                    exploration_questions, dataset_id, logical, ovVars >>

\* Lines 351-493: line l is read from the stream and decoded
ReadLine(l) ==
    LET s == [response_content |-> response_content, images |-> images,
              tables |-> tables, seen_image_urls |-> seen_image_urls,
              seen_table_urls |-> seen_table_urls,
              rcv_images |-> rcv_images, rcv_tables |-> rcv_tables,
              raised |-> FALSE]
        r == DecodeLine(s, event_type, job_id, l)
    IN  /\ pc = "stream"
        /\ response_content' = r.s.response_content
        /\ images' = r.s.images
        /\ tables' = r.s.tables
        /\ seen_image_urls' = r.s.seen_image_urls
        /\ seen_table_urls' = r.s.seen_table_urls
        /\ rcv_images' = r.s.rcv_images
        /\ rcv_tables' = r.s.rcv_tables
        /\ event_type' = r.event_type
        /\ job_id' = r.job_id
        /\ last' = r.last
        /\ lastLine' = l
        /\ lineNo' = lineNo + 1
        /\ UNCHANGED ioVars
        /\ UNCHANGED << convVars, pc, dataset_id, session_id, ovVars,
                        sessGhost, turn >>

\* The stream yields one of the lines of L (at most n lines per stream)
StreamLine(L, n) ==
    /\ lineNo < n
    /\ \E l \in L : ReadLine(l)
    /\ UNCHANGED logical

\* a plausible bug: the assistant entry overwrites the last entry
StreamEndOverwrite ==
    /\ pc = "stream"
    /\ chat_history' = [chat_history EXCEPT
                           ![Len(chat_history)] = AssistantEntry(response_content)]
    /\ pc' = "turn_done"
    /\ turn' = [turn EXCEPT !.status = "done"]
    /\ UNCHANGED ioVars
    /\ UNCHANGED << current_dataset_id, powerdrill_session_id,
                    powerdrill_dataset_id, dataset_name, exploration_questions,
                    dataset_id, session_id, decVars, decGhost, logical, ovVars,
                    sessGhost >>

\* Lines 495-551: the stream ended; the assistant entry is appended
StreamEnd ==
    /\ pc = "stream"
    /\ chat_history' = Append(chat_history, AssistantEntry(response_content))
    /\ pc' = "turn_done"
    /\ turn' = [turn EXCEPT !.status = "done"]
    /\ UNCHANGED ioVars
    /\ UNCHANGED << current_dataset_id, powerdrill_session_id,
                    powerdrill_dataset_id, dataset_name, exploration_questions,
                    dataset_id, session_id, decVars, decGhost, logical, ovVars,
                    sessGhost >>

\* Lines 351, 542-551: reading the next line raises (transport error)
StreamFail ==
    /\ pc = "stream"
    /\ FailTurn(chat_history, "Connection broken")
    /\ turn' = [turn EXCEPT !.status = "failed"]
    /\ last' = "transport_error"
    /\ UNCHANGED ioVars
    /\ UNCHANGED << current_dataset_id, powerdrill_session_id,
                    powerdrill_dataset_id, dataset_name, exploration_questions,
                    dataset_id, session_id, images, tables, seen_image_urls,
                    seen_table_urls, event_type, job_id, lineNo, lastLine, logical,
                    rcv_images, rcv_tables, ovVars, sessGhost >>

\* Lines 279-282 / 286-289: a "suggested questions" refresh button
RefreshQuestions ==
    /\ pc = "chat"
    /\ pc' = "overview"
    /\ StartOverview
    /\ UNCHANGED ioVars
    /\ UNCHANGED << convVars, dataset_id, session_id, decVars, decGhost,
                    logical, sessGhost, turn >>

\* a plausible bug: the defaults leave the stored dataset id as it was
OverviewDefaultsKeepId ==
    /\ dataset_name' = IF dataset_name \in {"Absent", ""} THEN "Dataset"
                       ELSE dataset_name
    /\ exploration_questions' = IF exploration_questions = << >> THEN << >>
                                ELSE exploration_questions
    /\ current_dataset_id' = current_dataset_id

\* Lines 219-224: the defaults, and where the caller goes on
OverviewDefaults ==
    /\ dataset_name' = IF dataset_name \in {"Absent", ""} THEN "Dataset"
                       ELSE dataset_name
    /\ exploration_questions' = IF exploration_questions = << >> THEN << >>
                                ELSE exploration_questions
    /\ current_dataset_id' = dataset_id

OverviewReturn ==
    pc' = CASE pc = "overview_init"   -> "chat"
            [] pc = "overview_upload" -> "upload_finish"  \* line 123
            [] OTHER                  -> "overview_done"

\* The handler has returned and the script run is over: its locals are gone.
ScriptEnd ==
    /\ pc \in {"turn_done", "overview_done"}
    /\ pc' = "idle"
    /\ session_id' = "None"
    /\ response_content' = << >>
    /\ DecoderStart
    /\ StartOverview
    /\ lastJob' = NoJob
    /\ UNCHANGED ioVars
    /\ UNCHANGED << convVars, dataset_id, logical, created, fresh, init, turn >>

\* Lines 180-224: one pass of the retry loop, with the call's outcome o
OverviewAttempt(o) ==
    /\ pc \in {"overview", "overview_init", "overview_upload"}
    /\ ovCalls' = ovCalls + 1
    /\ ovLast' = o
    /\ CASE o \in {"full", "bare"} ->                    \* lines 185-196
              /\ dataset_name' = IF o = "full" THEN NameOf(dataset_id)
                                 ELSE "Unnamed Dataset"
              /\ exploration_questions' = IF o = "full" THEN QuestionsOf(dataset_id)
                                          ELSE << >>
              /\ current_dataset_id' = dataset_id
              /\ OverviewReturn
              /\ UNCHANGED << attempt, retry_delay, sleeps >>
         [] o = "invalid" ->                             \* lines 197-201
              /\ sleeps' = Append(sleeps, retry_delay)
              /\ retry_delay' = NextDelay(retry_delay)
              /\ attempt' = attempt + 1
              /\ IF attempt + 1 < max_retries
                 THEN UNCHANGED << pc, dataset_name, exploration_questions,
                                   current_dataset_id >>
                 ELSE OverviewDefaults /\ OverviewReturn  \* lines 212-224
         [] OTHER ->                                     \* lines 203-210
              IF attempt < max_retries - 1
              THEN /\ sleeps' = Append(sleeps, retry_delay)
                   /\ retry_delay' = NextDelay(retry_delay)
                   /\ attempt' = attempt + 1
                   /\ UNCHANGED << pc, dataset_name, exploration_questions,
                                   current_dataset_id >>
              ELSE /\ OverviewDefaults /\ OverviewReturn  \* lines 215-224
                   /\ UNCHANGED << attempt, retry_delay, sleeps >>
    /\ UNCHANGED ioVars
    /\ UNCHANGED << chat_history, powerdrill_session_id, powerdrill_dataset_id,
                    dataset_id, session_id, decVars, decGhost, logical,
                    sessGhost, turn >>

-----------------------------------------------------------------------------
(* The transport (PowerdrillClient._make_request) and the login (app.py) *)

\* Final HTTP statuses the service answers with
Statuses == {200, 201, 400, 401, 403, 404, 500, 503}

\* What a request can meet: an HTTP response (its JSON body carrying a
\* 'message' field or not), or a connection failure.
Responses ==
    { [k |-> "http", status |-> n, message |-> m] :
          n \in Statuses, m \in {<< >>, << "quota exceeded" >>} }
    \cup { [k |-> "conn", status |-> 0, message |-> << >>] }

Methods == {"GET", "POST", "DELETE"}

\* requests.Response.raise_for_status: raises for 4xx and 5xx
raise_for_status(status) == status >= 400 /\ status < 600

\* str(e) of the HTTPError of raise_for_status, of a connection error
HttpErrorText(status) == << ToString(status), " Error" >>
ConnErrorText == << "Connection refused" >>

ApiRequestFailed(m) == << "API request failed: " >> \o m

ReturnValue(stream) ==
    [kind |-> IF stream THEN "lines" ELSE "payload", status |-> 0, msg |-> << >>]

\* a plausible bug: 401/403 are wrapped like every other failure
make_request_wrap_all(method, stream, resp) ==
    CASE resp.k = "conn" ->
            [kind |-> "Exception", status |-> 0,
             msg |-> ApiRequestFailed(ConnErrorText)]
      [] raise_for_status(resp.status) ->
            [kind |-> "Exception", status |-> 0,
             msg |-> ApiRequestFailed(IF resp.message # << >> THEN resp.message
                                      ELSE HttpErrorText(resp.status))]
      [] OTHER -> ReturnValue(stream)

\* api_client.py lines 64-132, _make_request: what the call gives its caller
make_request(method, stream, resp) ==
    CASE resp.k = "conn" ->                                  \* lines 125-132
            [kind |-> "Exception", status |-> 0,
             msg |-> ApiRequestFailed(ConnErrorText)]
      [] raise_for_status(resp.status) ->                    \* lines 95-123
            IF resp.status \in {401, 403}
            THEN [kind |-> "HTTPError", status |-> resp.status,
                  msg |-> HttpErrorText(resp.status)]
            ELSE [kind |-> "Exception", status |-> 0,
                  msg |-> ApiRequestFailed(IF resp.message # << >>
                                           THEN resp.message
                                           ELSE HttpErrorText(resp.status))]
      [] OTHER -> ReturnValue(stream)                        \* lines 91-94

InvalidCredentials == << "Authentication failed: Invalid User ID or API Key" >>
AuthFailed(m) == << "Authentication failed: " >> \o m

\* `"API request failed" in error_msg`
MentionsApiRequestFailed(m) ==
    \E i \in 1..Len(m) : m[i] = "API request failed: "

\* app.py lines 216-228: the message displayed for a failed verification
AuthErrorMessage(r) ==
    IF r.kind = "HTTPError"
    THEN IF r.status = 401 \/ r.status = 403
         THEN InvalidCredentials
         ELSE AuthFailed(r.msg)
    ELSE IF MentionsApiRequestFailed(r.msg)
         THEN InvalidCredentials
         ELSE AuthFailed(r.msg)

\* app.py lines 195-228: the credentials are verified by listing datasets
Authenticate(resp) ==
    /\ ~authenticated
    /\ netCalls < MaxRequests
    /\ LET r == make_request("GET", FALSE, resp)
       IN  /\ net' = [method |-> "GET", stream |-> FALSE, resp |-> resp,
                      result |-> r]
           /\ netCalls' = netCalls + 1
           /\ IF r.kind = "payload"
              THEN /\ authenticated' = TRUE
                   /\ auth_message' = << "Authentication successful!" >>
              ELSE /\ authenticated' = FALSE
                   /\ auth_message' = AuthErrorMessage(r)
    /\ UNCHANGED << chatVars, trace, wait, upload, dmVars >>

\* A later call of the client (list, status, delete, create_job with
\* stream=True, ...) goes through _make_request
Request(method, stream, resp) ==
    /\ authenticated
    /\ netCalls < MaxRequests
    /\ net' = [method |-> method, stream |-> stream, resp |-> resp,
               result |-> make_request(method, stream, resp)]
    /\ netCalls' = netCalls + 1
    /\ UNCHANGED << authenticated, auth_message, chatVars, trace, wait, upload, dmVars >>

-----------------------------------------------------------------------------
(* Debug tracing of the transport (api_client.py lines 53-62, 74-86,       *)
(* 96-105, 128-130, 183-191, 196-205, 217-219) and _sanitize_headers.      *)
(* Two clients are built with the same key, one with debug=True and one    *)
(* with debug=False, and are given the same calls and the same responses.  *)

\* API keys (a key is a non-empty string, app.py line 199)
Key3  == << "a", "b", "c" >>
Key8  == << "a", "b", "c", "d", "e", "f", "g", "h" >>
Key9  == << "a", "b", "c", "d", "e", "f", "g", "h", "i" >>
Key12 == << "a", "b", "c", "d", "e", "f", "g", "h", "i", "j", "k", "l" >>
ApiKeys == {Key3, Key8, Key9, Key12}

\* api_client.py lines 23-26: self.headers
ClientHeaders(api_key) ==
    ("x-pd-api-key" :> api_key) @@ ("Content-Type" :> << "application/json" >>)

\* api_client.py lines 179-181: upload_headers
UploadHeaders(api_key) == ("x-pd-api-key" :> api_key)

\* a plausible bug: a key of 8 characters is shown as its two halves
sanitize_headers_from_8(headers) ==
    [sanitized |->
        IF "x-pd-api-key" \in DOMAIN headers
        THEN LET api_key == headers["x-pd-api-key"]
             IN  [headers EXCEPT !["x-pd-api-key"] =
                    IF api_key # << >> /\ Len(api_key) >= 8
                    THEN SubSeq(api_key, 1, 4) \o << "*", "*", "*", "*" >>
                         \o SubSeq(api_key, Len(api_key) - 3, Len(api_key))
                    ELSE << "*", "*", "*", "*", "*", "*", "*", "*" >>]
        ELSE headers,
     headers |-> headers]

\* a plausible bug: the dict is masked in place, without the copy
sanitize_headers_in_place(headers) ==
    LET masked ==
          IF "x-pd-api-key" \in DOMAIN headers
          THEN LET api_key == headers["x-pd-api-key"]
               IN  [headers EXCEPT !["x-pd-api-key"] =
                      IF api_key # << >> /\ Len(api_key) > 8
                      THEN SubSeq(api_key, 1, 4) \o << "*", "*", "*", "*" >>
                           \o SubSeq(api_key, Len(api_key) - 3, Len(api_key))
                      ELSE << "*", "*", "*", "*", "*", "*", "*", "*" >>]
          ELSE headers
    IN  [sanitized |-> masked, headers |-> masked]

\* api_client.py lines 225-234, _sanitize_headers: the dict it returns
\* (sanitized) and the dict it was given as the call leaves it (headers)
sanitize_headers(headers) ==
    [sanitized |->
        IF "x-pd-api-key" \in DOMAIN headers
        THEN LET api_key == headers["x-pd-api-key"]
             IN  [headers EXCEPT !["x-pd-api-key"] =
                    IF api_key # << >> /\ Len(api_key) > 8
                    THEN SubSeq(api_key, 1, 4) \o << "*", "*", "*", "*" >>
                         \o SubSeq(api_key, Len(api_key) - 3, Len(api_key))
                    ELSE << "*", "*", "*", "*", "*", "*", "*", "*" >>]
        ELSE headers,
     headers |-> headers]

\* api_client.py lines 8-26: PowerdrillClient(endpoint, user_id, api_key, debug)
NewClient(api_key, debug) ==
    [api_key |-> api_key, debug |-> debug, headers |-> ClientHeaders(api_key),
     log |-> << >>,
     sent |-> [method |-> "none", stream |-> FALSE, headers |-> << >>],
     result |-> [kind |-> "none", status |-> 0, msg |-> << >>],
     unread |-> FALSE]

\* The printed header line (lines 58 and 188), when tracing
HeaderTrace(c, headers) ==
    IF c.debug
    THEN [out |-> << [what |-> "headers", headers |-> sanitize_headers(headers).sanitized] >>,
          headers |-> sanitize_headers(headers).headers]
    ELSE [out |-> << >>, headers |-> headers]

\* The printed response and error lines (lines 75-86, 97-105, 128-130)
ResponseTrace(c, stream, resp) ==
    IF ~c.debug THEN << >>
    ELSE IF resp.k = "conn" THEN << [what |-> "error", text |-> ConnErrorText] >>
    ELSE << [what |-> "status", status |-> resp.status, body |-> ~stream] >>
         \o (IF raise_for_status(resp.status)
             THEN << [what |-> "error", status |-> resp.status] >>
             ELSE << >>)

\* api_client.py lines 53-132: one call of _make_request on client c.  The
\* request goes out with self.headers as they are at line 68; the iterator
\* returned for a stream has not been read by the tracing (line 85).
ClientRequest(c, method, stream, resp) ==
    LET t == HeaderTrace(c, c.headers)
    IN  [c EXCEPT
           !.headers = t.headers,
           !.log = t.out \o ResponseTrace(c, stream, resp),
           !.sent = [method |-> method, stream |-> stream, headers |-> t.headers],
           !.result = make_request(method, stream, resp),
           !.unread = stream /\ resp.k = "http" /\ ~raise_for_status(resp.status)]

\* What the upload endpoint can answer: as Responses, and a 2xx body holds
\* data.file_object_key or not
UploadResponses ==
    { [k |-> "http", status |-> n, file_key |-> b] :
          n \in Statuses, b \in BOOLEAN }
    \cup { [k |-> "conn", status |-> 0, file_key |-> FALSE] }

FileUploadFailed(m) == << "File upload failed: " >> \o m

\* api_client.py lines 193-220: what _upload_file gives its caller
upload_file(resp) ==
    CASE resp.k = "conn" ->
            [kind |-> "Exception", status |-> 0,
             msg |-> FileUploadFailed(ConnErrorText)]
      [] raise_for_status(resp.status) ->
            [kind |-> "Exception", status |-> 0,
             msg |-> FileUploadFailed(HttpErrorText(resp.status))]
      [] ~resp.file_key ->
            [kind |-> "Exception", status |-> 0,
             msg |-> FileUploadFailed(
                        << "Failed to upload file: Invalid response format" >>)]
      [] OTHER -> [kind |-> "file_object_key", status |-> 0, msg |-> << >>]

\* api_client.py lines 179-220: one call of _upload_file on client c
ClientUpload(c, resp) ==
    LET t == HeaderTrace(c, UploadHeaders(c.api_key))
    IN  [c EXCEPT
           !.log = t.out
                   \o (IF ~c.debug THEN << >>
                       ELSE IF resp.k = "conn"
                       THEN << [what |-> "error", text |-> ConnErrorText] >>
                       ELSE << [what |-> "status", status |-> resp.status,
                                body |-> TRUE] >>
                            \o (IF upload_file(resp).kind = "Exception"
                                THEN << [what |-> "error", status |-> resp.status] >>
                                ELSE << >>)),
           !.sent = [method |-> "POST", stream |-> FALSE, headers |-> t.headers],
           !.result = upload_file(resp),
           !.unread = FALSE]

\* The two clients are built for key api_key
NewTrace(api_key) ==
    [api_key |-> api_key, n |-> 0,
     on |-> NewClient(api_key, TRUE), off |-> NewClient(api_key, FALSE)]

\* Both clients make the same request and meet the same response
TracedRequest(method, stream, resp) ==
    /\ trace.n < MaxRequests
    /\ trace' = [trace EXCEPT !.n = @ + 1,
                              !.on = ClientRequest(@, method, stream, resp),
                              !.off = ClientRequest(@, method, stream, resp)]
    /\ UNCHANGED << authenticated, auth_message, net, netCalls, chatVars,
                    wait, upload, dmVars >>

\* Both clients upload the same file and meet the same response
TracedUpload(resp) ==
    /\ trace.n < MaxRequests
    /\ trace' = [trace EXCEPT !.n = @ + 1,
                              !.on = ClientUpload(@, resp),
                              !.off = ClientUpload(@, resp)]
    /\ UNCHANGED << authenticated, auth_message, net, netCalls, chatVars,
                    wait, upload, dmVars >>

-----------------------------------------------------------------------------
(* PowerdrillClient.wait_for_dataset_ready *)

Timeouts  == 0..MaxTimeout
Intervals == 1..MaxInterval
\* seconds one get_dataset_status call takes
Latencies == {0, 1}

OptCounts == { << >>, << 0 >>, << 1 >> }

StatusAnswers ==
    { StatusAnswer("data", a, b) : a \in OptCounts, b \in OptCounts }
    \cup { StatusAnswer("nodata", << >>, << >>),
           StatusAnswer("error", << >>, << >>) }

\* data.get(key, 0)
CountOr0(opt) == IF opt = << >> THEN 0 ELSE opt[1]

\* Lines 447-449: the test that ends the wait
StatusReady(st) ==
    /\ st.k = "data"
    /\ CountOr0(st.invalid_count) = 0
    /\ CountOr0(st.synching_count) = 0

\* a plausible bug: the loop still runs when the timeout is just reached
TimeLeftInclusive(now, timeout) == now <= timeout

\* Line 444: (time.time() - start_time) < timeout
TimeLeft(now, timeout) == now < timeout

\* Line 443: the call begins
WaitStart(timeout, interval) ==
    /\ wait.pc = "idle"
    /\ wait' = [NoWait EXCEPT !.pc = "loop", !.timeout = timeout,
                              !.interval = interval]
    /\ UNCHANGED << chatVars, authVars, upload, dmVars >>

\* a plausible bug: the time is looked at again before the sleep
WaitPollNoSleepAfterDeadline(st, took) ==
    /\ wait.pc = "loop"
    /\ TimeLeft(wait.now, wait.timeout)
    /\ LET polled == [wait EXCEPT !.polls = @ + 1, !.pollAt = wait.now,
                                  !.now = @ + took, !.status = st,
                                  !.onlySynching =
                                      @ /\ st = StatusAnswer("data", << 0 >>, << 1 >>)]
       IN  wait' =
             CASE st.k = "error" ->
                    [polled EXCEPT !.pc = "done", !.result = "raised"]
               [] StatusReady(st) ->
                    [polled EXCEPT !.pc = "done", !.result = "true"]
               [] ~TimeLeft(polled.now, wait.timeout) ->
                    [polled EXCEPT !.pc = "done", !.result = "false"]
               [] OTHER ->
                    [polled EXCEPT !.sleeps = @ + 1,
                                   !.now = @ + wait.interval]
    /\ UNCHANGED << chatVars, authVars, upload, dmVars >>

\* Lines 444-452: one pass of the loop; the status call answers st after
\* `took` seconds
WaitPoll(st, took) ==
    /\ wait.pc = "loop"
    /\ TimeLeft(wait.now, wait.timeout)
    /\ LET polled == [wait EXCEPT !.polls = @ + 1, !.pollAt = wait.now,
                                  !.now = @ + took, !.status = st,
                                  !.onlySynching =
                                      @ /\ st = StatusAnswer("data", << 0 >>, << 1 >>)]
       IN  wait' =
             CASE st.k = "error" ->
                    [polled EXCEPT !.pc = "done", !.result = "raised"]
               [] StatusReady(st) ->
                    [polled EXCEPT !.pc = "done", !.result = "true"]
               [] OTHER ->                                       \* line 452
                    [polled EXCEPT !.sleeps = @ + 1,
                                   !.now = @ + wait.interval]
    /\ UNCHANGED << chatVars, authVars, upload, dmVars >>

\* Lines 444, 454: the time is up
WaitTimeout ==
    /\ wait.pc = "loop"
    /\ ~TimeLeft(wait.now, wait.timeout)
    /\ wait' = [wait EXCEPT !.pc = "done", !.result = "false"]
    /\ UNCHANGED << chatVars, authVars, upload, dmVars >>

\* The caller has taken the result
WaitReturn ==
    /\ wait.pc = "done"
    /\ wait' = NoWait
    /\ UNCHANGED << chatVars, authVars, upload, dmVars >>

-----------------------------------------------------------------------------
(* The upload flows: FileUploader._process_files ("uploader") and           *)
(* ChatInterface._process_files_in_chat ("chat")                            *)

Flows == {"uploader", "chat"}
\* create_dataset: a response with data.id, one without, an error
CreateOutcomes == {"ok", "noid", "fail"}
\* One file of the batch: all went well, writing the staging copy raised,
\* the byte upload raised, the registration request raised
FileOutcomes == {"ok", "write_fail", "upload_fail", "register_fail"}
\* wait_for_dataset_ready: True, False, or an exception of its status call
WaitResults == {"true", "false", "raised"}

\* the id the service gives the new dataset
NewDataset == "U1"

Req(op, file) == [op |-> op, file |-> file]

\* create_data_source (api_client.py 306-319): the requests file k causes
FileRequests(k, o) ==
    CASE o = "write_fail"  -> << >>
      [] o = "upload_fail" -> << Req("upload", k) >>
      [] OTHER             -> << Req("upload", k), Req("register", k) >>

\* Lines 85-87 and 96-99: the staging copies left when the step of file k
\* ends.  NamedTemporaryFile(delete=False) keeps the file when write()
\* raises inside the `with`; the try/finally that unlinks it starts after.
TempAfter(temp, k, o) ==
    IF o = "write_fail" THEN temp \cup {k} ELSE temp

\* a plausible bug: a failed file is skipped and the batch goes on
FileStepContinue(u, o) ==
    LET k  == u.i + 1
        u1 == [u EXCEPT !.requests = @ \o FileRequests(k, o),
                        !.temp = TempAfter(@, k, o),
                        !.i = k,
                        !.failed = IF o = "ok" THEN @ ELSE k]
    IN  [u |-> u1, pc |-> IF k < u.n THEN "upload" ELSE "upload_wait"]

\* file_uploader.py lines 83-99 (chat_interface.py 99-113): the step of
\* the next file, and where the flow goes after it
FileStep(u, o) ==
    LET k  == u.i + 1
        u1 == [u EXCEPT !.requests = @ \o FileRequests(k, o),
                        !.temp = TempAfter(@, k, o)]
    IN  IF o = "ok"
        THEN [u |-> [u1 EXCEPT !.i = k],
              pc |-> IF k < u.n THEN "upload" ELSE "upload_wait"]
        ELSE \* the exception leaves the loop: lines 110-112 (167-169)
             [u |-> [u1 EXCEPT !.failed = k, !.result = "None"],
              pc |-> "upload_done"]

\* a plausible bug: a timeout of the readiness wait is treated as an error
AfterWaitStrict(dataset, r) == IF r = "true" THEN dataset ELSE "None"

\* file_uploader.py lines 103-112: what _process_files returns
AfterWait(dataset, r) == IF r = "raised" THEN "None" ELSE dataset

\* f"I'm uploading {len(uploaded_files)} files to create dataset: ..."
UploadUserEntry(n) ==
    [is_user |-> TRUE,
     content |-> << "I'm uploading ", ToString(n), " files to create dataset" >>]
\* Lines 145-156: the assistant message of the upload
UploadAssistantEntry(n, questions) ==
    [is_user |-> FALSE,
     content |-> << "Dataset created successfully!", ToString(n) >> \o questions]

\* file_uploader.py lines 73-80, chat_interface.py lines 87-97: the dataset
\* is created
UploadStart(flow, n, o) ==
    /\ pc \in (IF flow = "chat" THEN {"chat"} ELSE {"idle", "chat"})
    /\ flow = "chat" => Len(chat_history) < 2 * MaxTurns
    /\ upload' = [NoUpload EXCEPT
                     !.flow = flow, !.n = n,
                     !.requests = << Req("create_dataset", 0) >>,
                     !.dataset = IF o = "ok" THEN NewDataset ELSE "None",
                     !.result = IF o = "ok" THEN "none" ELSE "None",
                     !.before = current_dataset_id]
    /\ pc' = IF o = "ok" THEN "upload" ELSE "upload_done"
    /\ UNCHANGED << convVars, dataset_id, session_id, decVars, decGhost,
                    logical, ovVars, sessGhost, turn, authVars, wait, dmVars >>

\* One pass of the loop over the files
UploadFile(o) ==
    /\ pc = "upload"
    /\ upload' = FileStep(upload, o).u
    /\ pc' = FileStep(upload, o).pc
    /\ UNCHANGED << convVars, dataset_id, session_id, decVars, decGhost,
                    logical, ovVars, sessGhost, turn, authVars, wait, dmVars >>

\* file_uploader.py lines 101-112, chat_interface.py lines 115-132: the
\* readiness wait, which answers r
UploadWait(r) ==
    /\ pc = "upload_wait"
    /\ LET u == [upload EXCEPT !.requests = Append(@, Req("wait", 0)),
                               !.ready = r]
       IN  IF upload.flow = "uploader"
           THEN /\ upload' = [u EXCEPT !.result = AfterWait(upload.dataset, r)]
                /\ pc' = "upload_done"
                /\ UNCHANGED << dataset_id, ovVars >>
           ELSE CASE r = "true" ->                        \* lines 118-123
                       /\ upload' = u
                       /\ dataset_id' = upload.dataset
                       /\ pc' = "overview_upload"
                       /\ StartOverview
                  [] r = "false" ->                       \* lines 131-132
                       /\ upload' = u
                       /\ pc' = "upload_finish"
                       /\ UNCHANGED << dataset_id, ovVars >>
                  [] OTHER ->                             \* lines 167-169
                       /\ upload' = [u EXCEPT !.result = "None"]
                       /\ pc' = "upload_done"
                       /\ UNCHANGED << dataset_id, ovVars >>
    /\ UNCHANGED << convVars, session_id, decVars, decGhost, logical,
                    sessGhost, turn, authVars, wait, dmVars >>

\* chat_interface.py lines 134-165: the new dataset becomes the current
\* one and the upload is added to the transcript
UploadFinish ==
    /\ pc = "upload_finish"
    /\ current_dataset_id' = upload.dataset
    /\ chat_history' = chat_history \o
           << UploadUserEntry(upload.n),
              UploadAssistantEntry(upload.n, exploration_questions) >>
    /\ upload' = [upload EXCEPT !.result = upload.dataset]
    /\ pc' = "upload_done"
    /\ UNCHANGED << powerdrill_session_id, powerdrill_dataset_id, dataset_name,
                    exploration_questions, dataset_id, session_id, decVars,
                    decGhost, logical, ovVars, sessGhost, turn, authVars, wait, dmVars >>

\* The flow has returned and the script run is over
UploadEnd ==
    /\ pc = "upload_done"
    /\ pc' = "idle"
    /\ upload' = NoUpload
    /\ StartOverview
    /\ UNCHANGED << convVars, dataset_id, session_id, decVars, decGhost,
                    logical, sessGhost, turn, authVars, wait, dmVars >>

-----------------------------------------------------------------------------
(* Specifications *)

\* the lines fed to the turns of a whole conversation
ConvLines ==
    { JsonData("b1", BlocksPayload(<< Block("MESSAGE", JStr(Hello)) >>)),
      OtherLine([syn |-> "bare", text |-> << "ping" >>, val |-> JNull]) }

Next ==
    \/ \E d \in Datasets : UseSelectedDataset(d)
    \/ \E o \in SessionOutcomes : ChatInit(o)
    \/ \E q \in Questions, o1 \in SessionOutcomes, o2 \in SessionOutcomes,
          oj \in JobOutcomes : AskOpen(q, o1, o2, oj)
    \/ StreamLine(ConvLines, MaxConvLines)
    \/ StreamEnd
    \/ StreamFail
    \/ ScriptEnd

\* The conversation: dataset selection, sessions and question turns.
Spec == Init /\ [][Next]_vars

NextOverview ==
    \/ \E d \in Datasets : UseSelectedDataset(d)
    \/ \E o \in SessionOutcomes : ChatInit(o)
    \/ RefreshQuestions
    \/ \E o \in OverviewOutcomes : OverviewAttempt(o)
    \/ ScriptEnd

\* Dataset selection and the overview fetches of the refresh buttons.
SpecOverview == Init /\ [][NextOverview]_vars

NextDelete ==
    \/ NextOverview
    \/ \E d \in Datasets, o \in DeleteOutcomes : DeleteDataset(d, o)

\* The same, with the "Delete Dataset" button of the data manager.
SpecDelete == Init /\ [][NextDelete]_vars

\* One turn's stream, opened on dataset A with session s1.
InitDecoder ==
    /\ LoggedIn
    /\ wait = NoWait
    /\ upload = NoUpload
    /\ current_dataset_name = "Sales" /\ deletion = NoDelete
    /\ current_dataset_id = "A"
    /\ chat_history = << UserEntry("q1") >>
    /\ powerdrill_session_id = "s1"
    /\ powerdrill_dataset_id = "A"
    /\ dataset_name = "Absent"
    /\ exploration_questions = << >>
    /\ pc = "stream"
    /\ dataset_id = "A"
    /\ session_id = "s1"
    /\ response_content = << >>
    /\ images = << >> /\ tables = << >>
    /\ seen_image_urls = {} /\ seen_table_urls = {}
    /\ event_type = JNull /\ job_id = JNull
    /\ attempt = 0 /\ retry_delay = 1
    /\ lineNo = 0 /\ lastLine = NoLine /\ last = "none" /\ logical = << >>
    /\ rcv_images = << >> /\ rcv_tables = << >>
    /\ created = 1 /\ fresh = {"s1"}
    /\ init = [ran |-> TRUE, changed |-> TRUE, absent |-> TRUE, calls |-> 1,
               touched |-> FALSE]
    /\ lastJob = [sent |-> TRUE, dataset |-> "A", session |-> "s1", fresh |-> TRUE]
    /\ ovCalls = 0 /\ ovLast = "none" /\ sleeps = << >>
    /\ turn = [status |-> "open", session |-> "s1", bound |-> "A",
               history |-> << >>, prevFailed |-> FALSE,
               prevSession |-> "Absent", touched |-> TRUE, endSession |-> "s1"]

NextDecoder ==
    \/ StreamLine(DecLines, MaxLines)
    \/ StreamEnd
    \/ StreamFail

\* The decoder on every stream of at most MaxLines lines of DecLines.
SpecDecoder == InitDecoder /\ [][NextDecoder]_vars

\* The page before the login (app.py lines 176-188)
InitAuth ==
    /\ InitChat
    /\ authenticated = FALSE
    /\ auth_message = << >>
    /\ net = NoRequest
    /\ netCalls = 0
    /\ trace = NoTrace

NextAuth ==
    \/ \E resp \in Responses : Authenticate(resp)
    \/ \E method \in Methods, stream \in BOOLEAN, resp \in Responses :
          Request(method, stream, resp)

\* The login and the requests of the client that follow it.
SpecAuth == InitAuth /\ [][NextAuth]_vars

\* The lines fed to the turns that follow one another
TurnLines ==
    { EventLine(<< " ", "MESSAGE" >>), EventLine(<< "IMAGE", " " >>),
      RawData("bare", "job-1"),
      JsonData("a1", Delta(<< Art(U1, "n1") >>)),
      JsonData("d1", Delta(<< JStr(Hello) >>)),
      JsonData("b1", BlocksPayload(<< Block("MESSAGE", JStr(Hello)) >>)),
      JsonData("b3", BlocksPayload(<< Block("IMAGE", Art(U1a, "n1")) >>)),
      JsonData("b4", BlocksPayload(<< Block("TABLE", Art(U1, "n2")),
                                      Block("IMAGE", Art(U2, "n2")) >>)) }

\* A first turn on dataset A with session s1, after its stream gave
\* `event: IMAGE` and an image delta for URL u
InitTurns ==
    /\ LoggedIn
    /\ wait = NoWait
    /\ upload = NoUpload
    /\ current_dataset_name = "Sales" /\ deletion = NoDelete
    /\ current_dataset_id = "A"
    /\ chat_history = << UserEntry("q1") >>
    /\ powerdrill_session_id = "s1"
    /\ powerdrill_dataset_id = "A"
    /\ dataset_name = "Absent"
    /\ exploration_questions = << >>
    /\ pc = "stream"
    /\ dataset_id = "A"
    /\ session_id = "s1"
    /\ response_content = ImageText(JStr(<< "n1" >>), JStr(U1))
    /\ images = << [url |-> JStr(U1), name |-> JStr(<< "n1" >>)] >>
    /\ tables = << >>
    /\ seen_image_urls = {U1} /\ seen_table_urls = {}
    /\ event_type = JStr(<< "IMAGE" >>) /\ job_id = JNull
    /\ attempt = 0 /\ retry_delay = 1
    /\ lineNo = 2
    /\ lastLine = JsonData("a1", Delta(<< Art(U1, "n1") >>))
    /\ last = "decoded"
    /\ logical = ImageText(JStr(<< "n1" >>), JStr(U1))
    /\ rcv_images = << [url |-> JStr(U1), name |-> JStr(<< "n1" >>)] >>
    /\ rcv_tables = << >>
    /\ created = 1 /\ fresh = {"s1"}
    /\ init = [ran |-> TRUE, changed |-> TRUE, absent |-> TRUE, calls |-> 1,
               touched |-> FALSE]
    /\ lastJob = [sent |-> TRUE, dataset |-> "A", session |-> "s1", fresh |-> TRUE]
    /\ ovCalls = 0 /\ ovLast = "none" /\ sleeps = << >>
    /\ turn = [status |-> "open", session |-> "s1", bound |-> "A",
               history |-> << >>, prevFailed |-> FALSE,
               prevSession |-> "Absent", touched |-> TRUE, endSession |-> "s1"]

NextTurns ==
    \/ StreamLine(TurnLines, MaxLines)
    \/ StreamEnd
    \/ StreamFail
    \/ ScriptEnd
    \/ \E o \in SessionOutcomes : ChatInit(o)
    \/ \E q \in Questions, o1 \in SessionOutcomes, o2 \in SessionOutcomes,
          oj \in JobOutcomes : AskOpen(q, o1, o2, oj)

\* Question turns that follow a turn whose stream carried an image.
SpecTurns == InitTurns /\ [][NextTurns]_vars

\* The page after the login, with the two clients of the comparison
InitTrace ==
    /\ InitChat
    /\ authenticated = TRUE
    /\ auth_message = << "Authentication successful!" >>
    /\ net = NoRequest
    /\ netCalls = 0
    /\ \E api_key \in ApiKeys : trace = NewTrace(api_key)

NextTrace ==
    \/ \E method \in Methods, stream \in BOOLEAN, resp \in Responses :
          TracedRequest(method, stream, resp)
    \/ \E resp \in UploadResponses : TracedUpload(resp)

\* The calls of a client with tracing, next to the same calls without.
SpecTrace == InitTrace /\ [][NextTrace]_vars

\* The page after the login, with dataset A selected
InitUpload ==
    /\ LoggedIn
    /\ current_dataset_id = "A"
    /\ chat_history = << >>
    /\ powerdrill_session_id = "Absent"
    /\ powerdrill_dataset_id = "Absent"
    /\ dataset_name = "Absent"
    /\ exploration_questions = << >>
    /\ pc = "idle"
    /\ dataset_id = "None"
    /\ session_id = "None"
    /\ response_content = << >>
    /\ images = << >> /\ tables = << >>
    /\ seen_image_urls = {} /\ seen_table_urls = {}
    /\ event_type = JNull /\ job_id = JNull
    /\ attempt = 0 /\ retry_delay = 1
    /\ lineNo = 0 /\ lastLine = NoLine /\ last = "none" /\ logical = << >>
    /\ rcv_images = << >> /\ rcv_tables = << >>
    /\ created = 0 /\ fresh = {}
    /\ init = NoInit /\ lastJob = NoJob
    /\ ovCalls = 0 /\ ovLast = "none" /\ sleeps = << >>
    /\ turn = NoTurn
    /\ wait = NoWait
    /\ upload = NoUpload
    /\ current_dataset_name = "None" /\ deletion = NoDelete

NextUpload ==
    \/ \E o \in SessionOutcomes : ChatInit(o)
    \/ \E flow \in Flows, n \in 1..MaxFiles, o \in CreateOutcomes :
          UploadStart(flow, n, o)
    \/ \E o \in FileOutcomes : UploadFile(o)
    \/ \E r \in WaitResults : UploadWait(r)
    \/ \E o \in OverviewOutcomes : OverviewAttempt(o)
    \/ UploadFinish
    \/ UploadEnd

\* The two upload flows, started from the page of a selected dataset.
SpecUpload == InitUpload /\ [][NextUpload]_vars

NextReady ==
    \/ \E timeout \in Timeouts, interval \in Intervals :
          WaitStart(timeout, interval)
    \/ \E st \in StatusAnswers, took \in Latencies : WaitPoll(st, took)
    \/ WaitTimeout
    \/ WaitReturn

\* Calls of wait_for_dataset_ready with every timeout and interval.
SpecReady == Init /\ [][NextReady]_vars

\* The same calls, where a running call is always carried on: each status
\* request returns and each sleep ends.
SpecReadyFair ==
    /\ Init
    /\ [][NextReady]_vars
    /\ WF_vars(\E st \in StatusAnswers, took \in Latencies : WaitPoll(st, took))
    /\ WF_vars(WaitTimeout)

\* The three payload shapes that carry text, each as the `data:` line the
\* decoder reads (lines 380-387, 432-440, 470-480)
Shapes == {"sse", "blocks", "messages_list", "messages_str"}
Texts  == {Hello, World}

TextLine(shape, t) ==
    CASE shape = "sse" ->
            JsonData("t", Delta(<< JStr(t) >>))
      [] shape = "blocks" ->
            JsonData("t", BlocksPayload(<< Block("MESSAGE", JStr(t)) >>))
      [] shape = "messages_list" ->
            JsonData("t", MessagesPayload(<< Block("TEXT", JList(<< JStr(t) >>)) >>))
      [] OTHER ->
            JsonData("t", MessagesPayload(<< Block("TEXT", JStr(t)) >>))

\* The stream announces MESSAGE events
FeedEvent ==
    /\ lineNo < MaxLines
    /\ ReadLine(EventLine(<< " ", "MESSAGE" >>))
    /\ UNCHANGED logical

\* The stream carries text t in one of the shapes (an SSE delta follows
\* its `event: MESSAGE` line)
FeedText(shape, t) ==
    /\ lineNo < MaxLines
    /\ shape = "sse" => event_type = JStr(<< "MESSAGE" >>)
    /\ ReadLine(TextLine(shape, t))
    /\ logical' = logical \o t

NextShapes ==
    \/ FeedEvent
    \/ \E shape \in Shapes, t \in Texts : FeedText(shape, t)
    \/ StreamEnd

\* The decoder on streams that carry text in the three payload shapes.
SpecShapes == InitDecoder /\ [][NextShapes]_vars

-----------------------------------------------------------------------------
(* Claims *)

\* The position of the first "?" of url, or Len(url) + 1
FirstQuery(url) ==
    CHOOSE i \in 1..(Len(url) + 1) :
        /\ i = Len(url) + 1 \/ url[i] = "?"
        /\ \A j \in 1..(i - 1) : url[j] # "?"

\* The URL of an artifact without its query string
SansQuery(e) == SubSeq(e.url.s, 1, FirstQuery(e.url.s) - 1)

RECURSIVE FirstSeen(_)
\* The artifacts of rcv that are the first with their stripped URL (a URL
\* that is empty once stripped names no artifact), in order.
FirstSeen(rcv) ==
    IF rcv = << >> THEN << >>
    ELSE LET n     == Len(rcv)
             e     == rcv[n]
             front == SubSeq(rcv, 1, n - 1)
         IN  IF SansQuery(e) # << >>
                /\ \A j \in 1..(n - 1) : SansQuery(rcv[j]) # SansQuery(e)
             THEN Append(FirstSeen(front), e)
             ELSE FirstSeen(front)

OnePerUrl(kept) ==
    \A i, j \in 1..Len(kept) : i # j => SansQuery(kept[i]) # SansQuery(kept[j])

\* C1: in every state of a stream the image list and the table list hold at
\* most one entry per URL-without-query-string, the entry is the first one
\* received with that URL, and the entries are in order of first occurrence.
C1_DedupFirstSeen ==
    /\ OnePerUrl(images) /\ OnePerUrl(tables)
    /\ images = FirstSeen(rcv_images)
    /\ tables = FirstSeen(rcv_tables)

\* C1 witness: two images that differ only in the query string were
\* received and one entry was kept.
C1_Witness ==
    /\ Len(images) = 1
    /\ \E i, j \in 1..Len(rcv_images) :
          /\ i < j
          /\ rcv_images[i].url # rcv_images[j].url
          /\ SansQuery(rcv_images[i]) = SansQuery(rcv_images[j])
          /\ images[1] = rcv_images[i]

\* C2: whichever of the three payload shapes carries the text, the
\* accumulated string is the text that was fed, and so is the content of the
\* assistant entry at the end of the stream.
C2_ShapesSameText ==
    /\ pc = "stream" => response_content = logical
    /\ pc = "turn_done" =>
          /\ chat_history[Len(chat_history)] = AssistantEntry(logical)
          /\ response_content = logical

\* C2 witness: "hello" and " world" arrived in the oldest legacy shape, as
\* a one-element list and as a string, and the transcript holds both.
C2_Witness ==
    /\ pc = "turn_done"
    /\ logical = Hello \o World
    /\ lastLine = TextLine("messages_str", World)
    /\ chat_history[Len(chat_history)].content = << "hello", " world" >>

SkippedLine(l) == l.k = "badutf8" \/ (l.k = "str" /\ l.head = "other")

\* C3: reading a line that has no recognized SSE prefix (or that does not
\* decode) raises nothing and changes neither the text, the artifact lists,
\* the dedup sets, the event type nor the job id; the loop goes on.
C3_UnknownLineSkipped ==
    [][ (pc = "stream" /\ lineNo' = lineNo + 1 /\ SkippedLine(lastLine'))
          => /\ pc' = "stream"
             /\ UNCHANGED << response_content, images, tables, seen_image_urls,
                             seen_table_urls, event_type, job_id >> ]_vars

\* C3 witness: a line without prefix was read after text and an event type
\* had been taken.
C3_Witness ==
    /\ pc = "stream"
    /\ lastLine.k = "str" /\ lastLine.head = "other" /\ lastLine.body.syn = "bare"
    /\ response_content # << >>
    /\ event_type # JNull


IsErrorEntry(e) ==
    /\ ~e.is_user
    /\ Len(e.content) = 2
    /\ e.content[1] = "Error processing question: "

TurnFailed == pc = "turn_done" /\ turn.status = "failed"

\* The transcript is what it was when the turn began, plus the question
\* and one assistant entry.
TurnAppendedTwo ==
    /\ Len(chat_history) = Len(turn.history) + 2
    /\ SubSeq(chat_history, 1, Len(turn.history)) = turn.history
    /\ chat_history[Len(chat_history) - 1].is_user
    /\ ~chat_history[Len(chat_history)].is_user

\* C4: when the transport fails, at the opening of the job request or while
\* the stream is read, the loop is left at once (no further line is read)
\* and the turn's one assistant entry holds the error message alone.
C4_TransportFailureEndsTurn ==
    /\ last = "transport_error" => pc = "turn_done" /\ turn.status = "failed"
    /\ TurnFailed =>
          /\ TurnAppendedTwo
          /\ IsErrorEntry(chat_history[Len(chat_history)])
          /\ response_content = chat_history[Len(chat_history)].content

\* C4 witness: the stream broke after a line of text had been decoded.
C4_Witness ==
    /\ TurnFailed
    /\ last = "transport_error"
    /\ lineNo = 1
    /\ lastLine = JsonData("b1", BlocksPayload(<< Block("MESSAGE", JStr(Hello)) >>))
    /\ IsErrorEntry(chat_history[2])

\* The turn after a failed turn, with no session created in between, finds
\* the session the failed turn left and sends its job on it.
NextTurnSameSession ==
    (pc \in {"stream", "turn_done"} /\ turn.prevFailed /\ ~turn.touched) =>
        /\ turn.session = turn.prevSession
        /\ (lastJob.sent /\ ~NoSession(turn.session)) =>
              lastJob.session = turn.session

\* C5 as stated: a failed turn changes neither the stored session id, nor
\* the bound dataset id, nor an earlier transcript entry, and the next
\* question runs on the same session.
C5_FailedTurnChangesNothing ==
    /\ TurnFailed =>
          /\ powerdrill_session_id = turn.session
          /\ powerdrill_dataset_id = turn.bound
          /\ SubSeq(chat_history, 1, Len(turn.history)) = turn.history
    /\ NextTurnSameSession

\* C5 amended: a failed turn never changes a session id that was stored
\* when it began (when none was stored, the on-demand creation of the turn
\* may have stored one), nor the bound dataset id, nor an earlier transcript
\* entry, and the next question runs on the same session.
C5_FailedTurnKeepsSession ==
    /\ TurnFailed =>
          /\ ~NoSession(turn.session) => powerdrill_session_id = turn.session
          /\ powerdrill_dataset_id = turn.bound
          /\ SubSeq(chat_history, 1, Len(turn.history)) = turn.history
    /\ NextTurnSameSession

\* C5 witness: a turn failed, and the next question completed as a turn on
\* the session the failed turn had used.
C5_Witness ==
    /\ pc = "turn_done"
    /\ turn.status = "done"
    /\ turn.prevFailed /\ ~turn.touched
    /\ ~NoSession(turn.prevSession)
    /\ lastJob.sent /\ lastJob.session = turn.prevSession
    /\ Len(chat_history) = 4
    /\ IsErrorEntry(chat_history[2])

\* C6: a construction of the chat component calls createSession once when
\* the dataset id differs from the bound one, and not at all when it is the
\* same, whatever the earlier createSession call answered.
C6_OneSessionPerDatasetChange ==
    init.ran => init.calls = (IF init.changed THEN 1 ELSE 0)

\* C7: every job request carries a session id that createSession returned
\* after the job's dataset became the bound dataset.
C7_SessionNeverReused ==
    lastJob.sent => lastJob.fresh

CreatedIds == { SessionIds[i] : i \in 1..created }

\* C8: every job request carries a session id the service returned; when
\* none was stored the turn obtained one on demand, and when none can be
\* obtained no job request is sent and the turn fails.
C8_JobCarriesSession ==
    /\ lastJob.sent =>
          /\ ~NoSession(lastJob.session)
          /\ lastJob.session \in CreatedIds
          /\ NoSession(turn.session) => lastJob.session \in fresh
    /\ (pc \in {"stream", "turn_done"} /\ NoSession(session_id)) =>
          ~lastJob.sent /\ TurnFailed

\* C8 witness: no session was stored, the on-demand creation of the turn
\* failed, and the job still went out with a session of its own.
C8_Witness ==
    /\ pc = "stream"
    /\ NoSession(turn.session)
    /\ powerdrill_session_id = "None"
    /\ lastJob.sent
    /\ lastJob.session \in CreatedIds

\* C9: a fetch makes at most 3 calls, goes on only while no call has given a
\* valid response, has slept 1s before the 2nd call and 2s before the 3rd,
\* and a success at the 3rd call is stored.
C9_OverviewRetry ==
    /\ ovCalls <= 3
    /\ pc \in {"overview", "overview_init"} =>
          /\ ovLast \notin {"full", "bare"}
          /\ Len(sleeps) = ovCalls
    /\ ovCalls >= 2 => sleeps[1] = 1
    /\ ovCalls >= 3 => sleeps[2] = 2
    /\ (ovLast = "full" /\ ovCalls = 3) =>
          /\ sleeps = << 1, 2 >>
          /\ pc = "overview_done"
          /\ dataset_name = NameOf(dataset_id)
          /\ exploration_questions = QuestionsOf(dataset_id)

\* C9 witness: two calls failed, the third gave the overview.
C9_Witness ==
    /\ pc = "overview_done"
    /\ ovLast = "full" /\ ovCalls = 3
    /\ sleeps = << 1, 2 >>
    /\ dataset_name = NameOf(dataset_id)

\* C10: once the retries are exhausted the stored name is the dataset id
\* and the stored suggestion list is empty.
C10_DegradedDefaults ==
    (pc = "overview_done" /\ ovLast \in {"invalid", "exc"}) =>
        /\ dataset_name = dataset_id
        /\ exploration_questions = << >>


AuthStatus(resp) == resp.k = "http" /\ resp.status \in {401, 403}

\* C11: after a failed credential verification the UI reports invalid
\* credentials exactly when the response was a 401 or a 403.
C11_AuthDistinction ==
    (~authenticated /\ netCalls > 0) =>
        (auth_message = InvalidCredentials <=> AuthStatus(net.resp))

Is2xx(resp) == resp.k = "http" /\ resp.status >= 200 /\ resp.status < 300

C13_AuthNeverRetried ==
    pc \in {"overview", "overview_init"} => ovLast # "auth"


ReportsAllZero(st) == st = StatusAnswer("data", << 0 >>, << 0 >>)

\* C14: the poll that reports invalid_count = 0 and synching_count = 0 ends
\* the wait with true and no sleep follows it; false is returned only once
\* timeout seconds have passed and no poll begins after that; with timeout
\* = 1, interval = 1 and a status that always reports synching_count = 1
\* the result is false after one poll.
C14_WaitForReady ==
    /\ (wait.polls > 0 /\ ReportsAllZero(wait.status)) =>
          /\ wait.pc = "done" /\ wait.result = "true"
          /\ wait.sleeps = wait.polls - 1
    /\ wait.polls > 0 => wait.pollAt < wait.timeout
    /\ wait.result = "false" =>
          /\ wait.now >= wait.timeout
          /\ wait.sleeps = wait.polls
          /\ ~ReportsAllZero(wait.status)
    /\ (wait.pc = "done" /\ wait.result # "false") =>
          \/ wait.result = "true" /\ StatusReady(wait.status)
          \/ wait.result = "raised" /\ wait.status.k = "error"
    /\ (wait.timeout = 1 /\ wait.interval = 1 /\ wait.onlySynching) =>
          /\ wait.polls <= 1
          /\ wait.pc = "done" => wait.result = "false" /\ wait.polls = 1

\* C14 witness: timeout 1s, interval 1s, one poll that reported
\* synching_count = 1, and the result is false.
C14_Witness ==
    /\ wait.pc = "done" /\ wait.result = "false"
    /\ wait.timeout = 1 /\ wait.interval = 1
    /\ wait.polls = 1 /\ wait.sleeps = 1
    /\ wait.status = StatusAnswer("data", << 0 >>, << 1 >>)


\* C15: when every file of the batch went through and the readiness wait
\* answered true or false, the flow yields the new dataset id (the chat flow
\* makes it the current dataset) and reports no failure.
C15_TimeoutNotAnError ==
    (pc = "upload_done" /\ upload.flow # "none" /\ upload.ready \in {"true", "false"}) =>
        /\ upload.i = upload.n /\ upload.failed = 0
        /\ upload.result = NewDataset
        /\ upload.flow = "chat" => current_dataset_id = NewDataset

\* C15 witness: both files of a batch were uploaded, the wait timed out, and
\* _process_files gave the dataset id.
C15_Witness ==
    /\ pc = "upload_done"
    /\ upload.flow = "uploader" /\ upload.n = 2 /\ upload.i = 2
    /\ upload.ready = "false"
    /\ upload.result = NewDataset

\* C16: when the step of a file ends, on whatever path, its staging copy
\* has been deleted.
C16_NoStagingFileLeft == upload.temp = {}

\* C17: when the step of file k fails, no request was issued for a later
\* file, the readiness wait was not started, and the flow ends without a
\* dataset id (the chat flow leaves the current dataset as it was).
C17_FailureStopsBatch ==
    upload.failed > 0 =>
        /\ pc = "upload_done"
        /\ \A j \in 1..Len(upload.requests) :
              /\ upload.requests[j].file <= upload.failed
              /\ upload.requests[j].op # "wait"
        /\ upload.ready = "none"
        /\ upload.result = "None"
        /\ current_dataset_id = upload.before

\* C17 witness: the byte upload of the first of two files failed, and
\* nothing was sent after it.
C17_Witness ==
    /\ pc = "upload_done"
    /\ upload.n = 2 /\ upload.failed = 1
    /\ upload.requests = << Req("create_dataset", 0), Req("upload", 1) >>
    /\ upload.result = "None"


\* A step that starts a question turn: the user entry is appended
TurnStarts ==
    /\ Len(chat_history') > Len(chat_history)
    /\ chat_history'[Len(chat_history) + 1].is_user

C19_TranscriptAppendOnly ==
    [][ /\ Len(chat_history') >= Len(chat_history)
        /\ SubSeq(chat_history', 1, Len(chat_history)) = chat_history
        /\ (pc # "turn_done" /\ pc' = "turn_done") =>
              /\ Len(chat_history') = Len(turn'.history) + 2
              /\ chat_history'[Len(chat_history') - 1] \in
                    { UserEntry(q) : q \in Questions }
              /\ ~chat_history'[Len(chat_history')].is_user ]_vars

\* C19 witness: a failed turn and then a completed one: four entries, user
\* and assistant in turn.
C19_Witness ==
    /\ pc = "turn_done" /\ turn.status = "done"
    /\ Len(chat_history) = 4
    /\ chat_history[1].is_user /\ IsErrorEntry(chat_history[2])
    /\ chat_history[3].is_user /\ chat_history[4] = AssistantEntry(Hello)

-----------------------------------------------------------------------------
(* The content of a stream, line by line: `logical` is what the lines fed  *)
(* so far stand for.                                                       *)

Events     == {"JOB_ID", "MESSAGE", "IMAGE", "TABLE"}
MediaKinds == {"IMAGE", "TABLE"}
MediaUrls  == {U1, U1a, U2}

\* The stream announces events of type ev
FeedEventOf(ev) ==
    /\ lineNo < MaxLines
    /\ ReadLine(EventLine(<< " ", ev >>))
    /\ UNCHANGED logical

\* The inline reference of an artifact (lines 404 and 423)
InlineReference(kind, u, name) ==
    IF kind = "IMAGE"
    THEN ImageText(JStr(<< name >>), JStr(u))
    ELSE TableText(JStr(<< name >>))

\* No artifact with the URL of u, query string apart, has come before
NewArtifact(rcv, u) ==
    LET e == [url |-> JStr(u)]
    IN  \A j \in 1..Len(rcv) : SansQuery(rcv[j]) # SansQuery(e)

\* An SSE delta of the running event type kind carries artifact u
FeedMedia(kind, u) ==
    /\ lineNo < MaxLines
    /\ event_type = JStr(<< kind >>)
    /\ ReadLine(JsonData("m", Delta(<< Art(u, "n1") >>)))
    /\ logical' = logical \o
          (IF NewArtifact(IF kind = "IMAGE" THEN rcv_images ELSE rcv_tables, u)
           THEN InlineReference(kind, u, "n1") ELSE << >>)

\* A legacy block carries artifact u: it is collected, with no inline
\* reference (lines 444-462)
FeedBlockMedia(kind, u) ==
    /\ lineNo < MaxLines
    /\ ReadLine(JsonData("bm", BlocksPayload(<< Block(kind, Art(u, "n2")) >>)))
    /\ UNCHANGED logical

\* A line that carries neither text nor an artifact
FeedControl(l) ==
    /\ lineNo < MaxLines
    /\ ReadLine(l)
    /\ UNCHANGED logical

NextContent ==
    \/ \E ev \in Events : FeedEventOf(ev)
    \/ \E shape \in Shapes, t \in Texts : FeedText(shape, t)
    \/ \E kind \in MediaKinds, u \in MediaUrls : FeedMedia(kind, u)
    \/ \E kind \in MediaKinds, u \in MediaUrls : FeedBlockMedia(kind, u)
    \/ \E l \in ControlLines : FeedControl(l)
    \/ StreamEnd

\* The decoder on streams of text, artifacts and control lines.
SpecContent == InitDecoder /\ [][NextContent]_vars

\* C20: while the stream is read the accumulated text is the concatenation,
\* in arrival order, of the text deltas and inline media references of the
\* lines read, and when the stream ends the new assistant entry holds it.
C20_ContentIsConcatenation ==
    /\ pc = "stream" => response_content = logical
    /\ (pc = "turn_done" /\ turn.status = "done") =>
          chat_history = << UserEntry("q1"), AssistantEntry(logical) >>

\* C20 witness: an image and then text, and the entry holds the inline
\* reference of the image followed by the text.
C20_Witness ==
    /\ pc = "turn_done" /\ turn.status = "done"
    /\ event_type = JStr(<< "IMAGE" >>)
    /\ logical = ImageText(JStr(<< "n1" >>), JStr(U1a)) \o World
    /\ chat_history[2].content = logical

-----------------------------------------------------------------------------
(* The legacy block sections *)

\* The blocks of the payload of line l ('data:' line, data.blocks a list)
BlocksOf(l) ==
    IF /\ l.k = "str" /\ l.head = "data:" /\ l.body.syn = "json"
       /\ l.body.val.t = "obj" /\ "data" \in DOMAIN l.body.val.f
       /\ l.body.val.f["data"].t = "obj"
       /\ "blocks" \in DOMAIN l.body.val.f["data"].f
       /\ l.body.val.f["data"].f["blocks"].t = "list"
    THEN l.body.val.f["data"].f["blocks"].xs
    ELSE << >>

\* The items listed by the SOURCES / QUESTIONS blocks of line l
SectionItems(l) ==
    LET bs == BlocksOf(l)
    IN  UNION { { bs[i].f["content"].xs[j].s[1] :
                    j \in 1..Len(bs[i].f["content"].xs) } :
                i \in { k \in 1..Len(bs) :
                          /\ bs[k].t = "obj"
                          /\ "type" \in DOMAIN bs[k].f
                          /\ bs[k].f["type"] \in {JStr(<< "SOURCES" >>),
                                                  JStr(<< "QUESTIONS" >>)}
                          /\ "content" \in DOMAIN bs[k].f
                          /\ bs[k].f["content"].t = "list" } }

Mentions(text, item) == \E i \in 1..Len(text) : text[i] = item

\* C21: once a line carrying a SOURCES or QUESTIONS block with a list
\* content has been decoded, the accumulated text holds every listed item,
\* and so does the assistant entry when the stream ends there.
C21_SectionsRendered ==
    (last = "decoded" /\ SectionItems(lastLine) # {}) =>
        /\ pc = "stream" =>
              \A item \in SectionItems(lastLine) : Mentions(response_content, item)
        /\ (pc = "turn_done" /\ turn.status = "done") =>
              \A item \in SectionItems(lastLine) :
                  Mentions(chat_history[Len(chat_history)].content, item)

\* C22: with tracing on and with tracing off, the same calls meeting the
\* same responses send the same requests (method, streaming flag, headers)
\* and give the caller the same value or the same error, with the returned
\* line iterator equally unread; only the trace differs.
C22_TracingObservational ==
    trace.n > 0 =>
        /\ trace.on.sent = trace.off.sent
        /\ trace.on.result = trace.off.result
        /\ trace.on.unread = trace.off.unread
        /\ trace.on.headers = trace.off.headers
        /\ trace.off.log = << >>

\* C22 witness: after an earlier traced call, a streaming POST met a 500
\* with a message; the traced client logged it and both clients raised the
\* same error.
C22_Witness ==
    /\ trace.n = 2
    /\ trace.on.log # << >>
    /\ trace.on.sent.method = "POST" /\ trace.on.sent.stream
    /\ trace.on.result.kind = "Exception"
    /\ trace.on.result.msg = << "API request failed: ", "quota exceeded" >>
    /\ trace.off.result = trace.on.result

\* The key as the trace is to show it
MaskedKey(api_key) ==
    IF Len(api_key) > 8
    THEN [i \in 1..12 |->
            IF i <= 4 THEN api_key[i]
            ELSE IF i <= 8 THEN "*"
            ELSE api_key[Len(api_key) - 12 + i]]
    ELSE [i \in 1..8 |-> "*"]

\* C23: every header line of the trace shows the key masked (first 4
\* characters, '****', last 4 characters for a key longer than 8, else
\* '********'), never the key itself, and the request is sent with the key.
C23_KeyMaskedInTrace ==
    trace.n > 0 =>
        /\ \A i \in 1..Len(trace.on.log) :
              trace.on.log[i].what = "headers" =>
                  /\ trace.on.log[i].headers["x-pd-api-key"] = MaskedKey(trace.api_key)
                  /\ trace.on.log[i].headers["x-pd-api-key"] # trace.api_key
                  /\ \E j \in 1..Len(trace.on.log[i].headers["x-pd-api-key"]) :
                        trace.on.log[i].headers["x-pd-api-key"][j] = "*"
        /\ trace.on.sent.headers["x-pd-api-key"] = trace.api_key

\* C23 witness: a request made with the 9-character key was traced as
\* abcd****fghi and sent with the whole key.
C23_Witness ==
    /\ trace.n > 0
    /\ trace.api_key = Key9
    /\ trace.on.log[1].what = "headers"
    /\ trace.on.log[1].headers["x-pd-api-key"] =
          << "a", "b", "c", "d", "*", "*", "*", "*", "f", "g", "h", "i" >>
    /\ trace.on.sent.headers["x-pd-api-key"] = Key9

\* The event name an `event:` line carries
EventName(l) == SelectSeq(l.rest, LAMBDA a : a # " ")

IsLine(l, head) == l.k = "str" /\ l.head = head

\* C24: the running event type changes only when an `event:` line is read
\* (to the name on that line); `data:`, `id:`, empty and unrecognized lines
\* leave it as it is, and a `data:` line is decoded under it: the same text
\* delta is taken under MESSAGE and ignored under any other type.
C24_EventTypeOnlyFromEventLine ==
    [][ (pc = "stream" /\ lineNo' = lineNo + 1) =>
          /\ IF IsLine(lastLine', "event:")
             THEN event_type' = JStr(EventName(lastLine'))
             ELSE event_type' = event_type
          /\ lastLine' = JsonData("d1", Delta(<< JStr(Hello) >>)) =>
                response_content' =
                    (IF event_type = JStr(<< "MESSAGE" >>)
                     THEN response_content \o Hello ELSE response_content) ]_vars

\* C24 witness: one `event: MESSAGE` line and then two text deltas, both
\* taken as text.
C24_Witness ==
    /\ pc = "stream" /\ lineNo = 3
    /\ event_type = JStr(<< "MESSAGE" >>)
    /\ lastLine = JsonData("d2", Delta(<< JStr(World) >>))
    /\ response_content = Hello \o World

\* The payload of a `data:` line does not start with '{'
BarePayload(l) ==
    /\ IsLine(l, "data:")
    /\ l.body.syn = "bare" \/ (l.body.syn = "json" /\ l.body.val.t # "obj")

\* C25: under the event type JOB_ID a `data:` payload that does not start
\* with '{' becomes the job id, and the line changes nothing else.
C25_BareJobId ==
    [][ (/\ pc = "stream" /\ lineNo' = lineNo + 1
         /\ event_type = JStr(<< "JOB_ID" >>)
         /\ BarePayload(lastLine')) =>
          /\ job_id' = JStr(lastLine'.body.text)
          /\ pc' = "stream"
          /\ UNCHANGED << response_content, images, tables, seen_image_urls,
                          seen_table_urls, event_type >> ]_vars

\* C25 witness: text had been accumulated, then `event: JOB_ID` and a bare
\* job id arrived; the id is stored and the text is as it was.
C25_Witness ==
    /\ pc = "stream" /\ lineNo = 3
    /\ lastLine = RawData("bare", "job-1")
    /\ job_id = JStr(<< "job-1" >>)
    /\ event_type = JStr(<< "JOB_ID" >>)
    /\ response_content = Hello

\* The line is an SSE delta carrying one artifact, a legacy block carrying one
SseMediaLine(l)   == \E u \in MediaUrls : l = JsonData("m", Delta(<< Art(u, "n1") >>))
BlockMediaLine(l) ==
    \E kind \in MediaKinds, u \in MediaUrls :
        l = JsonData("bm", BlocksPayload(<< Block(kind, Art(u, "n2")) >>))

\* The URL of the artifact of a media line
MediaUrlOf(l) ==
    CHOOSE u \in MediaUrls :
        \/ l = JsonData("m", Delta(<< Art(u, "n1") >>))
        \/ \E kind \in MediaKinds :
              l = JsonData("bm", BlocksPayload(<< Block(kind, Art(u, "n2")) >>))

\* C26 as stated: an accepted SSE image appends exactly one inline reference
\* where it first occurs; legacy images and tables, and every table, add
\* nothing to the running text.
C26_OnlySseImagesInline ==
    [][ (pc = "stream" /\ lineNo' = lineNo + 1) =>
          /\ (SseMediaLine(lastLine') /\ event_type = JStr(<< "IMAGE" >>)) =>
                response_content' = response_content \o
                    (IF Len(images') = Len(images) + 1
                     THEN ImageText(JStr(<< "n1" >>), JStr(MediaUrlOf(lastLine')))
                     ELSE << >>)
          /\ (SseMediaLine(lastLine') /\ event_type = JStr(<< "TABLE" >>)) =>
                response_content' = response_content
          /\ BlockMediaLine(lastLine') => response_content' = response_content
      ]_vars

\* C26 amended: an accepted SSE image appends exactly one inline markdown
\* reference and an accepted SSE table exactly one inline placeholder
\* ("**Table: name** (will be displayed below)"), each where the artifact
\* first occurs; a duplicate appends nothing, and images and tables of the
\* legacy block format add nothing to the running text.
C26_SseMediaInline ==
    [][ (pc = "stream" /\ lineNo' = lineNo + 1) =>
          /\ (SseMediaLine(lastLine') /\ event_type = JStr(<< "IMAGE" >>)) =>
                /\ response_content' = response_content \o
                      (IF Len(images') = Len(images) + 1
                       THEN ImageText(JStr(<< "n1" >>), JStr(MediaUrlOf(lastLine')))
                       ELSE << >>)
                /\ tables' = tables
          /\ (SseMediaLine(lastLine') /\ event_type = JStr(<< "TABLE" >>)) =>
                /\ response_content' = response_content \o
                      (IF Len(tables') = Len(tables) + 1
                       THEN TableText(JStr(<< "n1" >>))
                       ELSE << >>)
                /\ images' = images
          /\ BlockMediaLine(lastLine') =>
                /\ response_content' = response_content
                /\ Len(images') + Len(tables') <= Len(images) + Len(tables) + 1
      ]_vars

\* C26 witness: a table arrived as an SSE delta and an image as a legacy
\* block; both are collected and the text holds the table placeholder only.
C26_Witness ==
    /\ pc = "stream" /\ lineNo = 3
    /\ Len(tables) = 1 /\ Len(images) = 1
    /\ BlockMediaLine(lastLine)
    /\ images[1].name = JStr(<< "n2" >>)
    /\ response_content = TableText(JStr(<< "n1" >>))

\* A line that is a JSON object with data.blocks and has no `data:` prefix
StandaloneBlocksLine ==
    OtherLine([syn |-> "json", text |-> << "b1" >>,
               val |-> BlocksPayload(<< Block("MESSAGE", JStr(Hello)) >>)])

\* C27: a standalone JSON line with data.blocks is decoded: the content of
\* its MESSAGE block is appended to the accumulated text.
C27_StandaloneJsonDecoded ==
    [][ (pc = "stream" /\ lineNo' = lineNo + 1
         /\ lastLine' = StandaloneBlocksLine) =>
            response_content' = response_content \o Hello ]_vars

\* A payload with an SSE delta ("hello") and data.blocks (" world"); a
\* payload with data.blocks ("hello") and data.messages (" world")
DeltaAndBlocksLine ==
    JsonData("x5", JObj([choices |-> JList(<< Choice(JStr(Hello)) >>),
                         data |-> JObj([blocks |-> JList(<< Block("MESSAGE", JStr(World)) >>)])]))
BlocksAndMessagesLine ==
    JsonData("x6", JObj([data |-> JObj([
                      blocks |-> JList(<< Block("MESSAGE", JStr(Hello)) >>),
                      messages |-> JList(<< Block("TEXT", JStr(World)) >>)])]))

\* C28: each payload is decoded by exactly one shape parser, SSE delta
\* before data.blocks before data.messages: a payload taken as an SSE delta
\* under MESSAGE contributes its delta only, and a payload with data.blocks
\* and data.messages contributes its blocks only.
C28_OneParserPerPayload ==
    [][ (pc = "stream" /\ lineNo' = lineNo + 1) =>
          /\ (lastLine' = DeltaAndBlocksLine /\ event_type = JStr(<< "MESSAGE" >>)) =>
                response_content' = response_content \o Hello
          /\ lastLine' = BlocksAndMessagesLine =>
                response_content' = response_content \o Hello ]_vars

\* The kind of the artifact a media line carries, given the running event type
MediaKindOf(l, ev) ==
    IF SseMediaLine(l) THEN ev.s[1]
    ELSE CHOOSE kind \in MediaKinds :
            \E u \in MediaUrls :
                l = JsonData("bm", BlocksPayload(<< Block(kind, Art(u, "n2")) >>))

\* An artifact with the URL u, query string apart, is in the list kept
Kept(kept, u) ==
    \E i \in 1..Len(kept) : SansQuery(kept[i]) = SansQuery([url |-> JStr(u)])

\* C29: an image is dropped exactly when an image with the same stripped
\* URL was accepted earlier in the stream, a table exactly when such a table
\* was, whichever format delivered either; the artifacts of the other kind
\* play no part and their list is left alone.
C29_DedupPerKind ==
    [][ (/\ pc = "stream" /\ lineNo' = lineNo + 1
         /\ \/ SseMediaLine(lastLine') /\ event_type.t = "str"
               /\ event_type.s[1] \in MediaKinds
            \/ BlockMediaLine(lastLine')) =>
          LET kind == MediaKindOf(lastLine', event_type)
              u    == MediaUrlOf(lastLine')
          IN  IF kind = "IMAGE"
              THEN /\ tables' = tables /\ seen_table_urls' = seen_table_urls
                   /\ IF Kept(images, u) THEN images' = images
                      ELSE /\ Len(images') = Len(images) + 1
                           /\ images'[Len(images')].url = JStr(u)
              ELSE /\ images' = images /\ seen_image_urls' = seen_image_urls
                   /\ IF Kept(tables, u) THEN tables' = tables
                      ELSE /\ Len(tables') = Len(tables) + 1
                           /\ tables'[Len(tables')].url = JStr(u) ]_vars

\* C29 witness: a URL was accepted as an image from an SSE delta and then,
\* with another query string, as a table from a legacy block.
C29_Witness ==
    /\ pc = "stream" /\ lineNo = 3
    /\ images = << [url |-> JStr(U1), name |-> JStr(<< "n1" >>)] >>
    /\ tables = << [url |-> JStr(U1a), name |-> JStr(<< "n2" >>)] >>
    /\ seen_image_urls = {U1} /\ seen_table_urls = {U1}

\* The decoder state of a stream whose only line so far is l
FreshDecode(l) ==
    DecodeLine([response_content |-> << >>, images |-> << >>, tables |-> << >>,
                seen_image_urls |-> {}, seen_table_urls |-> {},
                rcv_images |-> << >>, rcv_tables |-> << >>, raised |-> FALSE],
               JNull, JNull, l)

\* C30: a turn's stream starts with empty text, empty artifact lists, empty
\* dedup sets, no event type and no job id, and its first line is decoded
\* as the first line of any stream is, whatever the earlier turns received.
C30_DecoderStatePerTurn ==
    /\ (pc = "stream" /\ lineNo = 0) =>
          /\ response_content = << >>
          /\ images = << >> /\ tables = << >>
          /\ seen_image_urls = {} /\ seen_table_urls = {}
          /\ event_type = JNull /\ job_id = JNull
    /\ (pc = "stream" /\ lineNo = 1 /\ Len(chat_history) > 1) =>
          /\ response_content = FreshDecode(lastLine).s.response_content
          /\ images = FreshDecode(lastLine).s.images
          /\ tables = FreshDecode(lastLine).s.tables
          /\ seen_image_urls = FreshDecode(lastLine).s.seen_image_urls
          /\ seen_table_urls = FreshDecode(lastLine).s.seen_table_urls
          /\ event_type = FreshDecode(lastLine).event_type
          /\ job_id = FreshDecode(lastLine).job_id

\* C30 witness: the first turn accepted an image for URL u under the event
\* type IMAGE; in the second turn an image block for u?a is accepted, and
\* the event type is unset again.
C30_Witness ==
    /\ Len(chat_history) = 3
    /\ chat_history[2] = AssistantEntry(ImageText(JStr(<< "n1" >>), JStr(U1)))
    /\ pc = "stream" /\ lineNo = 1
    /\ lastLine = JsonData("b3", BlocksPayload(<< Block("IMAGE", Art(U1a, "n1")) >>))
    /\ images = << [url |-> JStr(U1a), name |-> JStr(<< "n1" >>)] >>
    /\ event_type = JNull

\* The messages of the payload of line l (`data:` line whose payload has
\* data.messages as a list, no data.blocks and no choices)
MessagesOf(l) ==
    IF /\ l.k = "str" /\ l.head = "data:" /\ l.body.syn = "json"
       /\ l.body.val.t = "obj" /\ DOMAIN l.body.val.f = {"data"}
       /\ l.body.val.f["data"].t = "obj"
       /\ DOMAIN l.body.val.f["data"].f = {"messages"}
       /\ l.body.val.f["data"].f["messages"].t = "list"
    THEN l.body.val.f["data"].f["messages"].xs
    ELSE << >>

\* Every message is an object and the elements of a list content are strings
TextMessages(msgs) ==
    \A i \in 1..Len(msgs) :
        /\ msgs[i].t = "obj"
        /\ ("content" \in DOMAIN msgs[i].f /\ msgs[i].f["content"].t = "list") =>
              \A j \in 1..Len(msgs[i].f["content"].xs) :
                  msgs[i].f["content"].xs[j].t = "str"

\* What one message is to contribute
MessageText(m) ==
    IF "type" \in DOMAIN m.f /\ m.f["type"] = JStr(<< "TEXT" >>)
       /\ "content" \in DOMAIN m.f
    THEN CASE m.f["content"].t = "list" /\ Len(m.f["content"].xs) > 0 ->
                 m.f["content"].xs[1].s
           [] m.f["content"].t = "str" -> m.f["content"].s
           [] OTHER -> << >>
    ELSE << >>

RECURSIVE MessagesText(_)
MessagesText(msgs) ==
    IF msgs = << >> THEN << >>
    ELSE MessageText(Head(msgs)) \o MessagesText(Tail(msgs))

\* C31: a payload of the oldest legacy format adds to the accumulated text,
\* message by message, element 0 of a non-empty list content of a TEXT
\* message, the string content of a TEXT message, and nothing for a message
\* of another type or with an empty or missing content.
C31_MessagesText ==
    [][ (/\ pc = "stream" /\ lineNo' = lineNo + 1
         /\ MessagesOf(lastLine') # << >>
         /\ TextMessages(MessagesOf(lastLine'))) =>
            response_content' = response_content \o MessagesText(MessagesOf(lastLine'))
      ]_vars

\* C31 witness: a string content, then a two-element list content of which
\* element 0 only was taken, then a payload of messages that add nothing.
C31_Witness ==
    /\ pc = "stream" /\ lineNo = 3
    /\ Len(MessagesOf(lastLine)) = 4
    /\ response_content = World \o Hello

\* Positions inside _load_dataset_overview
OverviewPcs == {"overview", "overview_init", "overview_upload"}

IsList(x) == DOMAIN x = 1..Len(x)

\* C32: whatever the attempts answer (error, 401/403, response without
\* 'data', success), the fetch makes at most max_retries calls and then
\* returns to its caller, and on return the stored current dataset id is
\* the dataset the fetch was made for and the suggested questions are a list.
C32_OverviewNeverFails ==
    [][ (pc \in OverviewPcs /\ ovCalls' = ovCalls + 1) =>
          /\ ovCalls' <= max_retries
          /\ ovCalls' = max_retries => pc' \notin OverviewPcs
          /\ pc' \notin OverviewPcs =>
                /\ pc' = (IF pc = "overview_upload" THEN "upload_finish"
                          ELSE IF pc = "overview_init" THEN "chat"
                          ELSE "overview_done")
                /\ current_dataset_id' = dataset_id
                /\ IsList(exploration_questions')
                /\ dataset_name' # "Absent" ]_vars

\* C32 witness: the fetch for the uploaded dataset failed three times (the
\* last time with a 401/403) and returned; the stored dataset id is the new
\* dataset's and the question list is empty.
C32_Witness ==
    /\ pc = "upload_finish"
    /\ ovCalls = max_retries /\ ovLast = "auth"
    /\ dataset_id = NewDataset /\ current_dataset_id = NewDataset
    /\ exploration_questions = << >>

\* C33: whenever the chat of the selected dataset is shown, the stored
\* overview (name, suggested questions) is that of the selected dataset or
\* the degraded defaults.
C33_OverviewOfSelectedDataset ==
    pc = "chat" =>
        /\ dataset_name \in {"Absent", "Dataset", "Unnamed Dataset",
                             NameOf(current_dataset_id)}
        /\ exploration_questions \in {<< >>, QuestionsOf(current_dataset_id)}

\* C34: the wait answers true only after a poll whose payload holds a data
\* object that reports invalid_count = 0 and synching_count = 0.
C34_ReadyNeedsBothCounts ==
    wait.result = "true" => ReportsAllZero(wait.status)

\* ceil(timeout / interval)
CeilDiv(timeout, interval) == (timeout + interval - 1) \div interval

\* C35: a running wait ends (status requests return, interval > 0); it makes
\* at most ceil(timeout / interval) polls, none when timeout is 0, and then
\* answers false; every poll that does not end the wait is followed by its
\* sleep, the time being looked at only before a poll.
C35_WaitTerminates ==
    /\ [](wait.pc # "idle" =>
            /\ wait.polls <= CeilDiv(wait.timeout, wait.interval)
            /\ wait.timeout = 0 =>
                  /\ wait.polls = 0
                  /\ wait.pc = "done" => wait.result = "false"
            /\ wait.pc = "loop" => wait.sleeps = wait.polls
            /\ wait.result = "false" => wait.sleeps = wait.polls
            /\ wait.now >= wait.sleeps * wait.interval)
    /\ (wait.pc = "loop") ~> (wait.pc = "done")

\* C35 witness: timeout 1s; the one poll took a second, so the time was up
\* when it returned, yet the sleep followed before false was answered.
C35_Witness ==
    /\ wait.pc = "done" /\ wait.result = "false"
    /\ wait.timeout = 1 /\ wait.interval = MaxInterval
    /\ wait.polls = 1 /\ wait.sleeps = 1
    /\ wait.now = 1 + MaxInterval

\* C36: when handling a line raises and the line is skipped, the accumulated
\* text, the artifact lists and the dedup sets are what they were before the
\* line.
C36_LineAllOrNothing ==
    [][(lineNo' = lineNo + 1 /\ last' = "exception") =>
          UNCHANGED << response_content, images, tables, seen_image_urls,
                       seen_table_urls >>]_vars

\* a is an initial part of b
IsPrefix(a, b) == Len(a) <= Len(b) /\ SubSeq(b, 1, Len(a)) = a

\* C37 (as stated): within a turn the text shown only grows; the text at
\* each step is an initial part of the text at the next step and of the
\* content of the assistant entry appended at the end of the turn.
C37_TextOnlyGrows ==
    [][pc = "stream" =>
          /\ IsPrefix(response_content, response_content')
          /\ pc' = "turn_done" =>
                IsPrefix(response_content,
                         chat_history'[Len(chat_history')].content)]_vars

\* C37 (amended): while the lines of a stream are decoded the text only
\* grows, and a turn whose stream ends normally stores exactly the last text
\* shown; a turn that fails replaces the text by the error message.
C37_TextGrowsUntilFailure ==
    [][pc = "stream" =>
          /\ last' # "transport_error" =>
                /\ IsPrefix(response_content, response_content')
                /\ pc' = "turn_done" =>
                      /\ response_content' = response_content
                      /\ chat_history'[Len(chat_history')] =
                            AssistantEntry(response_content)
          /\ last' = "transport_error" =>
                /\ pc' = "turn_done"
                /\ IsErrorEntry(chat_history'[Len(chat_history')])
                /\ response_content' = chat_history'[Len(chat_history')].content]_vars

\* C37 witness: three lines each added text, and the finished turn stored
\* the whole text.
C37_Witness ==
    /\ pc = "turn_done" /\ turn.status = "done"
    /\ lineNo = MaxLines
    /\ Len(response_content) >= 3
    /\ chat_history[Len(chat_history)] = AssistantEntry(response_content)

\* C38: a run of _delete_dataset whose request fails leaves the current
\* dataset id and name as they were; one that succeeds on the current
\* dataset clears the selection.
C38_DeleteKeepsSelectionOnFailure ==
    [][deletion' # deletion =>
          /\ deletion'.outcome = "raised" =>
                UNCHANGED << current_dataset_id, current_dataset_name >>
          /\ (deletion'.outcome = "deleted" /\ deletion'.id = current_dataset_id) =>
                /\ current_dataset_id' = "None"
                /\ current_dataset_name' = "None"]_vars

\* C39: in one overview fetch the backoff sleeps come only between attempts:
\* when the fetch is over, the number of sleeps is the number of attempts
\* minus one.
C39_SleepsBetweenAttempts ==
    /\ Len(sleeps) <= ovCalls
    /\ (pc \notin OverviewPcs /\ ovCalls > 0) => Len(sleeps) = ovCalls - 1

\* C40: the final de-duplication pass changes nothing: the images and the
\* tables displayed after the pass are the lists collected while decoding,
\* element for element and in the same order.
C40_FinalPassIdentity ==
    /\ unique_images(images) = images
    /\ unique_tables(tables) = tables

\* C40 witness: the turn has ended with two images collected out of three
\* received (one was a duplicate up to its query string), and the pass runs
\* over them.
C40_Witness ==
    /\ pc = "turn_done" /\ turn.status = "done"
    /\ Len(images) = 2 /\ Len(rcv_images) = 3
    /\ images[1].name = images[2].name
    /\ unique_images(images) = images

=============================================================================
